---- MODULE Spec2Model ----
(***************************************************************************)
(* GemmaGuardian surveillance agent.                                       *)
(*                                                                         *)
(* Part I   - SecurityMonitor (modules/application/security_monitor.py):   *)
(*            the monitoring thread, the analysis thread and the thread    *)
(*            that calls stop_monitoring, over the shared flags, the       *)
(*            pending queue and the MonitoringSessionUseCase session.      *)
(* Part II  - MobileNotificationService.send_security_alert: the gate and  *)
(*            the broadcast / webhook / HTTP channel order.                *)
(* Part III - the broadcast payload and the size of the datagram that      *)
(*            _send_broadcast_notification sends.                          *)
(* Part IV  - analyze_video of the two analysis backends: frames, batches, *)
(*            consolidation, classification, the failed analysis.          *)
(* Part V   - SecurityThreatEvaluator: the retry loop of                   *)
(*            evaluate_threat_level / extract_keywords and the fallback    *)
(*            keyword classifier.                                          *)
(* Part VI  - PersonDetectionUseCase.process_frame and its cooldown.       *)
(* Part VII - FFmpegVideoRecorder.record_clip called by two callers.       *)
(***************************************************************************)
EXTENDS Integers, Sequences, FiniteSets, TLC

(***************************************************************************)
(* Bounds of the model.                                                    *)
(***************************************************************************)
\* clips the recording collaborator may produce in one run
MaxClips == 2
\* detections returned by one process_frame call
MaxDetections == 2
\* the clock stops being advanced at this value
MaxTime == 11
\* seconds that may pass between two reads of time.time()
MaxDt == 3
\* keywords of one analysis
MaxKeywords == 4
\* broadcast addresses found by _get_broadcast_addresses
MaxAddresses == 2
\* frames a clip may yield
MaxFrames == 9

(***************************************************************************)
(* Program constants.                                                      *)
(***************************************************************************)
\* self._min_detection_interval = 5.0
min_detection_interval == 5
\* self._last_detection_time = 0
InitialLastDetectionTime == 0
\* time.time() when the monitor starts: the epoch clock is far beyond the
\* detection interval, so the first detection is never "too soon"
StartTime == min_detection_interval

\* SecurityThreatLevel
ThreatLevels == {"low", "medium", "high", "critical"}

None == "None"

VARIABLES
  \* ---- SecurityMonitor ----
  _stop_event,              \* Event: set or not
  _recording_in_progress,
  _analysis_in_progress,
  _last_detection_time,
  pending_analyses,         \* list of clips (clip ids)
  latest_threat_level,
  mpc,                      \* position of the monitoring thread
  apc,                      \* position of the analysis thread
  spc,                      \* position of the thread running start/stop_monitoring
  now,                      \* the wall clock read by time.time()
  current_time,             \* local of _handle_person_detections
  detections,               \* local: detections of the frame still to be added
  m_video_clip,             \* local video_clip of _handle_person_detections (0: none)
  a_video_clip,             \* local video_clip of _analysis_loop (0: none)
  analysis,                 \* local of _analysis_loop: the analysis in hand
  \* ---- MonitoringSessionUseCase ----
  sessions,                 \* every MonitoringSession object created
  current_session,          \* index into sessions, 0 for None
  \* ---- history ----
  clips_recorded,           \* number of clips the recorder returned
  clip_log,                 \* per clip: what the analysis loop did with it
  \* ---- MobileNotificationService.send_security_alert ----
  threat_level,             \* analysis.threat_level of the alert's analysis
  min_threat_level,         \* self.min_threat_level
  enable_push_notifications,
  webhook_urls,             \* number of configured webhook URLs
  notification_url,         \* TRUE when the HTTP endpoint is configured
  npc,                      \* position inside send_security_alert
  notify,                   \* what should_notify returned (once past the gate)
  success,                  \* local success of send_security_alert
  success_count,            \* local of _send_webhook_notifications
  attempts,                 \* history: every channel attempt and its outcome
  alert_result,             \* what send_security_alert returned (once done)
  \* ---- the analysis of the alert, _send_broadcast_notification ----
  analysis_text,            \* analysis.analysis_text
  keywords,                 \* analysis.keywords
  confidence,               \* characters of repr(analysis.confidence)
  video_path,
  server_ip,                \* self.server_ip
  bpc,                      \* position inside the broadcast
  payload,                  \* the dict built for the broadcast
  message,                  \* the serialized datagram
  ports_tried,              \* turns of `for port in ports` done
  broadcast_success_count,  \* local success_count of the broadcast
  datagrams,                \* history: every message a sendto delivered
  broadcast_success,        \* what _send_broadcast_notification returned
  \* ---- analyze_video ----
  backend,                  \* "ollama" or "transformer"
  frames,                   \* number of frames extract_frames returned
  frame_data,               \* number of frames converted for the model
  ppc,                      \* position inside analyze_video
  futures,                  \* per batch: queued, running, ok, none
  completed,                \* batches in the order their requests completed
  batch_results,            \* per batch: unset, summary, placeholder
  batch_summaries,          \* the summaries handed to consolidation
  consolidated_analysis,    \* what the consolidation step returned
  security_analysis,        \* what analyze_video returned
  \* ---- SecurityThreatEvaluator ----
  method,                   \* evaluate_threat_level or extract_keywords
  text,                     \* vocabulary the analysis text contains
  epc,                      \* position inside the method
  attempt,                  \* loop variable of the retry loop
  requests,                 \* history: timeout and outcome of every POST
  evaluation,               \* what the method returned, and by which path
  \* ---- PersonDetectionUseCase ----
  last_detection_time,      \* None or the time of the last admission
  clock,                    \* datetime.now()
  admissions,               \* history: time of every admitting call
  \* ---- FFmpegVideoRecorder ----
  _active_recording,
  rpc,                      \* per caller: position inside record_clip
  observed_active,          \* per caller: what its test of the flag read
  returned_clip,            \* per caller: what record_clip returned
  \* ---- RTSPStreamHandler ----
  is_connected,
  cap,                      \* "none", or the capture: "live" or "stale"
  failed_frame_count,
  last_successful_read,
  stream_time,              \* time.time() as the handler reads it
  source_readable,          \* the camera serves frames to new connections
  frame,                    \* what the last get_frame returned
  stream_log                \* history: the last call of the handler

\* what only the monitoring thread writes
mVars == << _recording_in_progress, _last_detection_time, mpc, now,
            current_time, detections, m_video_clip, clips_recorded >>
\* what only the analysis thread writes
aVars == << latest_threat_level, apc, a_video_clip, analysis, clip_log >>
\* the session of MonitoringSessionUseCase
sessVars == << sessions, current_session >>

monVars == << _stop_event, _analysis_in_progress, pending_analyses, spc,
              mVars, aVars, sessVars >>

\* the notification service: its configuration, the call in progress
alertVars == << threat_level, min_threat_level, enable_push_notifications,
                webhook_urls, notification_url, npc, notify, success,
                success_count, attempts, alert_result >>

\* the broadcast channel: the alert's analysis, the datagram, the port loop
bcVars == << analysis_text, keywords, confidence, video_path, server_ip, bpc,
             payload, message, ports_tried, broadcast_success_count,
             datagrams, broadcast_success >>

\* analyze_video of one backend on one clip
pipeVars == << backend, frames, frame_data, ppc, futures, completed,
               batch_results, batch_summaries, consolidated_analysis,
               security_analysis >>

\* one call of a SecurityThreatEvaluator method
evalVars == << method, text, epc, attempt, requests, evaluation >>

\* the detection cooldown of PersonDetectionUseCase
gateVars == << last_detection_time, clock, admissions >>

\* the recorder and its two callers
recVars == << _active_recording, rpc, observed_active, returned_clip >>

\* the stream handler, the camera and the last call
streamVars == << is_connected, cap, failed_frame_count, last_successful_read,
                 stream_time, source_readable, frame, stream_log >>

\* the services behind the use cases
svcVars == << pipeVars, evalVars, gateVars, recVars, streamVars >>

\* everything outside the monitor
notMonVars == << alertVars, bcVars, svcVars >>

vars == << monVars, alertVars, bcVars, svcVars >>

(***************************************************************************)
(* Part I: SecurityMonitor                                                 *)
(***************************************************************************)

\* SecurityAnalysis.is_threat_detected
is_threat_detected(level) == level \in {"medium", "high", "critical"}

\* threat_count that counts every analysis
threat_count_All(analyses) == Len(analyses)

\* MonitoringSession.threat_count:
\* sum(1 for analysis in self.analyses if analysis.is_threat_detected)
RECURSIVE threat_count(_)
threat_count(analyses) ==
  IF analyses = << >> THEN 0
  ELSE (IF is_threat_detected(Head(analyses).threat_level) THEN 1 ELSE 0)
       + threat_count(Tail(analyses))

\* MonitoringSession(...) as start_monitoring_session creates it
NewSession == [status |-> "in_progress", end_time |-> FALSE, detections |-> 0,
               video_clips |-> <<>>, analyses |-> <<>>]

\* history of one clip: popped by the analysis loop, the result of its
\* analysis ("pending" until analyze_security_clip returns), and the number
\* of send_security_alert calls made for it
NewClipLog == [popped |-> FALSE, result |-> "pending", alerts |-> 0]

MonInit ==
  /\ _stop_event = FALSE
  /\ _recording_in_progress = FALSE
  /\ _analysis_in_progress = FALSE
  /\ _last_detection_time = InitialLastDetectionTime
  /\ pending_analyses = <<>>
  /\ latest_threat_level = None
  /\ mpc = "m_off"
  /\ apc = "a_off"
  /\ spc = "s_init"
  /\ now = StartTime
  /\ current_time = 0
  /\ detections = 0
  /\ m_video_clip = 0
  /\ a_video_clip = 0
  /\ analysis = None
  /\ sessions = <<>>
  /\ current_session = 0
  /\ clips_recorded = 0
  /\ clip_log = [c \in 1..MaxClips |-> NewClipLog]

\* ---- the thread that starts and stops the monitor ----------------------

\* start_monitoring: the session is started, then the stream is connected;
\* the two worker threads are started only if the connection succeeded.
start_monitoring(connected) ==
  /\ spc = "s_init"
  /\ sessions' = Append(sessions, NewSession)
  /\ current_session' = Len(sessions) + 1
  /\ IF connected
       THEN /\ mpc' = "m_loop"
            /\ apc' = "a_loop"
            /\ spc' = "s_run"
       ELSE /\ spc' = "s_failed"
            /\ UNCHANGED << mpc, apc >>
  /\ UNCHANGED << notMonVars, _stop_event, _analysis_in_progress, pending_analyses,
                  _recording_in_progress, _last_detection_time, now,
                  current_time, detections, m_video_clip, clips_recorded,
                  latest_threat_level, a_video_clip, analysis, clip_log >>

\* stop_monitoring, first statement: self._stop_event.set()
stop_monitoring_set ==
  /\ spc = "s_run"
  /\ _stop_event' = TRUE
  /\ spc' = "s_join"
  /\ UNCHANGED << notMonVars, _analysis_in_progress, pending_analyses, mVars, aVars,
                  sessVars >>

\* stop_monitoring: both join(timeout=5) calls have returned, because the
\* thread ended or because the timeout expired; then end_monitoring_session
\* tests self.current_session.
stop_monitoring_join ==
  /\ spc = "s_join"
  /\ spc' = IF current_session = 0 THEN "s_done" ELSE "s_end_time"
  /\ UNCHANGED << notMonVars, _stop_event, _analysis_in_progress, pending_analyses,
                  mVars, aVars, sessVars >>

\* end_monitoring_session: end_time, then status, then current_session = None
end_monitoring_session ==
  /\ spc \in {"s_end_time", "s_status", "s_clear"}
  /\ CASE spc = "s_end_time" ->
            /\ sessions' = [sessions EXCEPT ![current_session].end_time = TRUE]
            /\ spc' = "s_status"
            /\ UNCHANGED current_session
       [] spc = "s_status" ->
            /\ sessions' = [sessions EXCEPT ![current_session].status = "completed"]
            /\ spc' = "s_clear"
            /\ UNCHANGED current_session
       [] spc = "s_clear" ->
            /\ current_session' = 0
            /\ spc' = "s_done"
            /\ UNCHANGED sessions
  /\ UNCHANGED << notMonVars, _stop_event, _analysis_in_progress, pending_analyses,
                  mVars, aVars >>

\* ---- MonitoringSessionUseCase.add_*_to_session -------------------------
\* Each add_* method tests self.current_session and then reads it again to
\* append; update_session (InMemoryMonitoringSessionRepository) swallows
\* every exception.  The two reads are two steps of the calling thread.

\* the append of add_detection_to_session
add_detection_to_session(s) ==
  [s EXCEPT ![current_session].detections = @ + 1]

\* the append of add_clip_to_session
add_clip_to_session(s, clip) ==
  [s EXCEPT ![current_session].video_clips = Append(@, clip)]

\* add_analysis_to_session that inserts at the front of the list
add_analysis_to_session_Front(s, a) ==
  [s EXCEPT ![current_session].analyses = << a >> \o @]

\* add_analysis_to_session that appends the analysis twice
add_analysis_to_session_Twice(s, a) ==
  [s EXCEPT ![current_session].analyses = Append(Append(@, a), a)]

\* the append of add_analysis_to_session
add_analysis_to_session(s, a) ==
  [s EXCEPT ![current_session].analyses = Append(@, a)]

\* ---- the monitoring thread: _monitoring_loop ---------------------------

\* SecurityMonitor(enable_visual_monitor=...): with the preview window the
\* loop has one more way to end; without it the other steps are the same
enable_visual_monitor == TRUE

\* while True: the loop does not look at the stop flag
monitoring_loop_check_Forever ==
  /\ mpc = "m_loop"
  /\ mpc' = "m_frame"
  /\ UNCHANGED << notMonVars, _stop_event, _analysis_in_progress, pending_analyses, spc,
                  _recording_in_progress, _last_detection_time, now,
                  current_time, detections, m_video_clip, clips_recorded,
                  aVars, sessVars >>

\* while not self._stop_event.is_set()
monitoring_loop_check ==
  /\ mpc = "m_loop"
  /\ mpc' = IF _stop_event THEN "m_ended" ELSE "m_frame"
  /\ UNCHANGED << notMonVars, _stop_event, _analysis_in_progress, pending_analyses, spc,
                  _recording_in_progress, _last_detection_time, now,
                  current_time, detections, m_video_clip, clips_recorded,
                  aVars, sessVars >>

\* get_frame returned None, or process_frame admitted no detection
monitoring_loop_no_detection ==
  /\ mpc = "m_frame"
  /\ mpc' = "m_loop"
  /\ UNCHANGED << notMonVars, _stop_event, _analysis_in_progress, pending_analyses, spc,
                  _recording_in_progress, _last_detection_time, now,
                  current_time, detections, m_video_clip, clips_recorded,
                  aVars, sessVars >>

\* display_frame returned False: the window was closed by the user
monitoring_loop_window_closed ==
  /\ mpc = "m_frame"
  /\ enable_visual_monitor
  /\ _stop_event' = TRUE
  /\ mpc' = "m_ended"
  /\ UNCHANGED << notMonVars, _analysis_in_progress, pending_analyses, spc,
                  _recording_in_progress, _last_detection_time, now,
                  current_time, detections, m_video_clip, clips_recorded,
                  aVars, sessVars >>

\* ---- _handle_person_detections ----------------------------------------

\* CanStartCapture that looks at the recording flag only
CanStartCapture_RecordingOnly(t) == ~_recording_in_progress

\* CanStartCapture without the test of _analysis_in_progress
CanStartCapture_NoAnalysisTest(t) ==
  /\ ~_recording_in_progress
  /\ ~(t - _last_detection_time < min_detection_interval)

\* the three early returns of _handle_person_detections, negated
CanStartCapture(t) ==
  /\ ~_recording_in_progress
  /\ ~_analysis_in_progress
  /\ ~(t - _last_detection_time < min_detection_interval)

\* process_frame admitted n detections, dt seconds after the last clock read;
\* the handler reads the clock and either returns early or goes on
handle_person_detections(n, dt) ==
  /\ mpc = "m_frame"
  /\ now + dt <= MaxTime
  /\ now' = now + dt
  /\ current_time' = now + dt
  /\ IF CanStartCapture(now + dt)
       THEN /\ mpc' = "m_add_det"
            /\ detections' = n
       ELSE /\ mpc' = "m_loop"
            /\ detections' = 0
  /\ UNCHANGED << notMonVars, _stop_event, _analysis_in_progress, pending_analyses, spc,
                  _recording_in_progress, _last_detection_time, m_video_clip,
                  clips_recorded, aVars, sessVars >>

\* for detection in detections: add_detection_to_session(detection).
\* The test of current_session and the append are two steps; an append that
\* finds current_session None raises AttributeError, and the handler's
\* except clause resets both flags.
handle_add_detections ==
  /\ mpc \in {"m_add_det", "m_add_det_app"}
  /\ CASE mpc = "m_add_det" /\ current_session # 0 ->
            /\ mpc' = "m_add_det_app"
            /\ UNCHANGED << detections, sessions, _recording_in_progress,
                            _analysis_in_progress >>
       [] mpc = "m_add_det" /\ current_session = 0 ->
            /\ detections' = detections - 1
            /\ mpc' = IF detections = 1 THEN "m_start" ELSE "m_add_det"
            /\ UNCHANGED << sessions, _recording_in_progress,
                            _analysis_in_progress >>
       [] mpc = "m_add_det_app" /\ current_session # 0 ->
            /\ sessions' = add_detection_to_session(sessions)
            /\ detections' = detections - 1
            /\ mpc' = IF detections = 1 THEN "m_start" ELSE "m_add_det"
            /\ UNCHANGED << _recording_in_progress, _analysis_in_progress >>
       [] mpc = "m_add_det_app" /\ current_session = 0 ->
            /\ _recording_in_progress' = FALSE
            /\ _analysis_in_progress' = FALSE
            /\ detections' = 0
            /\ mpc' = "m_loop"
            /\ UNCHANGED sessions
  /\ UNCHANGED << notMonVars, _stop_event, pending_analyses, spc, _last_detection_time,
                  now, current_time, m_video_clip, clips_recorded, aVars,
                  current_session >>

\* self._recording_in_progress = True; self._last_detection_time = current_time
\* and the call of record_security_clip, which blocks for the clip duration
handle_start_recording ==
  /\ mpc = "m_start"
  /\ _recording_in_progress' = TRUE
  /\ _last_detection_time' = current_time
  /\ mpc' = "m_record"
  /\ UNCHANGED << notMonVars, _stop_event, _analysis_in_progress, pending_analyses, spc,
                  now, current_time, detections, m_video_clip, clips_recorded,
                  aVars, sessVars >>

\* record_security_clip returned; the recording flag is cleared only when
\* there is a clip
handle_recording_returned_KeepsFlag(recorded) ==
  /\ mpc = "m_record"
  /\ recorded => clips_recorded < MaxClips
  /\ _recording_in_progress' = ~recorded
  /\ IF recorded
       THEN /\ clips_recorded' = clips_recorded + 1
            /\ m_video_clip' = clips_recorded + 1
            /\ mpc' = "m_add_clip"
       ELSE /\ mpc' = "m_loop"
            /\ UNCHANGED << clips_recorded, m_video_clip >>
  /\ UNCHANGED << notMonVars, _stop_event, _analysis_in_progress, pending_analyses, spc,
                  _last_detection_time, now, current_time, detections, aVars,
                  sessVars >>

\* record_security_clip returned a clip (recorded) or None, and
\* self._recording_in_progress = False
handle_recording_returned(recorded) ==
  /\ mpc = "m_record"
  /\ recorded => clips_recorded < MaxClips
  /\ _recording_in_progress' = FALSE
  /\ IF recorded
       THEN /\ clips_recorded' = clips_recorded + 1
            /\ m_video_clip' = clips_recorded + 1
            /\ mpc' = "m_add_clip"
       ELSE /\ mpc' = "m_loop"
            /\ UNCHANGED << clips_recorded, m_video_clip >>
  /\ UNCHANGED << notMonVars, _stop_event, _analysis_in_progress, pending_analyses, spc,
                  _last_detection_time, now, current_time, detections, aVars,
                  sessVars >>

\* add_clip_to_session(video_clip): test, then append (or AttributeError and
\* the except clause)
handle_add_clip ==
  /\ mpc \in {"m_add_clip", "m_add_clip_app"}
  /\ CASE mpc = "m_add_clip" ->
            /\ mpc' = IF current_session # 0 THEN "m_add_clip_app" ELSE "m_flag"
            /\ UNCHANGED << sessions, m_video_clip, _recording_in_progress,
                            _analysis_in_progress >>
       [] mpc = "m_add_clip_app" /\ current_session # 0 ->
            /\ sessions' = add_clip_to_session(sessions, m_video_clip)
            /\ mpc' = "m_flag"
            /\ UNCHANGED << m_video_clip, _recording_in_progress,
                            _analysis_in_progress >>
       [] mpc = "m_add_clip_app" /\ current_session = 0 ->
            /\ _recording_in_progress' = FALSE
            /\ _analysis_in_progress' = FALSE
            /\ m_video_clip' = 0
            /\ mpc' = "m_loop"
            /\ UNCHANGED sessions
  /\ UNCHANGED << notMonVars, _stop_event, pending_analyses, spc, _last_detection_time,
                  now, current_time, detections, clips_recorded, aVars,
                  current_session >>

\* the handler goes on to the append without setting the flag
handle_set_analysis_flag_NotSet ==
  /\ mpc = "m_flag"
  /\ mpc' = "m_queue"
  /\ UNCHANGED << notMonVars, _stop_event, _analysis_in_progress,
                  pending_analyses, spc, _recording_in_progress,
                  _last_detection_time, now, current_time, detections,
                  m_video_clip, clips_recorded, aVars, sessVars >>

\* self._analysis_in_progress = True
handle_set_analysis_flag ==
  /\ mpc = "m_flag"
  /\ _analysis_in_progress' = TRUE
  /\ mpc' = "m_queue"
  /\ UNCHANGED << notMonVars, _stop_event, pending_analyses, spc, _recording_in_progress,
                  _last_detection_time, now, current_time, detections,
                  m_video_clip, clips_recorded, aVars, sessVars >>

\* self.pending_analyses.append(video_clip)
handle_queue_clip ==
  /\ mpc = "m_queue"
  /\ pending_analyses' = Append(pending_analyses, m_video_clip)
  /\ m_video_clip' = 0
  /\ mpc' = "m_loop"
  /\ UNCHANGED << notMonVars, _stop_event, _analysis_in_progress, spc,
                  _recording_in_progress, _last_detection_time, now,
                  current_time, detections, clips_recorded, aVars, sessVars >>

\* ---- the analysis thread: _analysis_loop -------------------------------

\* while not self._stop_event.is_set()
analysis_loop_check ==
  /\ apc = "a_loop"
  /\ apc' = IF _stop_event THEN "a_ended" ELSE "a_poll"
  /\ UNCHANGED << notMonVars, _stop_event, _analysis_in_progress, pending_analyses, spc,
                  mVars, latest_threat_level, a_video_clip, analysis,
                  clip_log, sessVars >>

\* CanPop that also waits for _analysis_in_progress to be clear
CanPop_WhenNotAnalysing == pending_analyses # <<>> /\ ~_analysis_in_progress

\* the guard of the pop: if self.pending_analyses
CanPop == pending_analyses # <<>>

\* if self.pending_analyses: video_clip = self.pending_analyses.pop(0)
\* else: time.sleep(1)
analysis_loop_poll ==
  /\ apc = "a_poll"
  /\ IF CanPop
       THEN /\ a_video_clip' = Head(pending_analyses)
            /\ pending_analyses' = Tail(pending_analyses)
            /\ clip_log' = [clip_log EXCEPT ![Head(pending_analyses)].popped = TRUE]
            /\ apc' = "a_analyze"
       ELSE /\ apc' = "a_loop"
            /\ UNCHANGED << a_video_clip, pending_analyses, clip_log >>
  /\ UNCHANGED << notMonVars, _stop_event, _analysis_in_progress, spc, mVars,
                  latest_threat_level, analysis, sessVars >>

\* analyze_security_clip(video_clip) returned an analysis with threat level
\* `level`, or None (level = None): it catches every exception itself
analysis_loop_analyzed(level) ==
  /\ apc = "a_analyze"
  /\ analysis' = level
  /\ clip_log' = [clip_log EXCEPT ![a_video_clip].result = level]
  /\ apc' = IF level = None THEN "a_clear" ELSE "a_add"
  /\ UNCHANGED << notMonVars, _stop_event, _analysis_in_progress, pending_analyses, spc,
                  mVars, latest_threat_level, a_video_clip, sessVars >>

\* add_analysis_to_session(analysis): test, then append.  An append that
\* finds current_session None raises AttributeError, which no handler
\* inside the while loop catches: the loop ends.
analysis_loop_add_analysis ==
  /\ apc \in {"a_add", "a_add_app"}
  /\ CASE apc = "a_add" ->
            /\ apc' = IF current_session # 0 THEN "a_add_app" ELSE "a_latest"
            /\ UNCHANGED sessions
       [] apc = "a_add_app" /\ current_session # 0 ->
            /\ sessions' = add_analysis_to_session(sessions,
                              [clip |-> a_video_clip, threat_level |-> analysis])
            /\ apc' = "a_latest"
       [] apc = "a_add_app" /\ current_session = 0 ->
            /\ apc' = "a_ended"
            /\ UNCHANGED sessions
  /\ UNCHANGED << notMonVars, _stop_event, _analysis_in_progress, pending_analyses, spc,
                  mVars, latest_threat_level, a_video_clip, analysis,
                  clip_log, current_session >>

\* self.latest_threat_level = analysis.threat_level, and the test
\* if analysis.is_threat_detected
analysis_loop_latest ==
  /\ apc = "a_latest"
  /\ latest_threat_level' = analysis
  /\ apc' = IF is_threat_detected(analysis) THEN "a_alert" ELSE "a_clear"
  /\ UNCHANGED << notMonVars, _stop_event, _analysis_in_progress, pending_analyses, spc,
                  mVars, a_video_clip, analysis, clip_log, sessVars >>

\* _handle_security_threat(analysis): the notification service is always
\* configured (DIContainer.get_security_monitor), send_security_alert is
\* run to completion and every exception is caught
handle_security_threat ==
  /\ apc = "a_alert"
  /\ clip_log' = [clip_log EXCEPT ![a_video_clip].alerts = @ + 1]
  /\ apc' = "a_clear"
  /\ UNCHANGED << notMonVars, _stop_event, _analysis_in_progress, pending_analyses, spc,
                  mVars, latest_threat_level, a_video_clip, analysis,
                  sessVars >>

\* self._analysis_in_progress = False
analysis_loop_clear ==
  /\ apc = "a_clear"
  /\ _analysis_in_progress' = FALSE
  /\ a_video_clip' = 0
  /\ analysis' = None
  /\ apc' = "a_loop"
  /\ UNCHANGED << notMonVars, _stop_event, pending_analyses, spc, mVars,
                  latest_threat_level, clip_log, sessVars >>

\* ---- the specification of the monitor ----------------------------------

MainThread ==
  \/ \E connected \in BOOLEAN : start_monitoring(connected)
  \/ stop_monitoring_set
  \/ stop_monitoring_join
  \/ end_monitoring_session

MonitoringThread ==
  \/ monitoring_loop_check
  \/ monitoring_loop_no_detection
  \/ monitoring_loop_window_closed
  \/ \E n \in 1..MaxDetections, dt \in 0..MaxDt : handle_person_detections(n, dt)
  \/ handle_add_detections
  \/ handle_start_recording
  \/ \E recorded \in BOOLEAN : handle_recording_returned(recorded)
  \/ handle_add_clip
  \/ handle_set_analysis_flag
  \/ handle_queue_clip

AnalysisThread ==
  \/ analysis_loop_check
  \/ analysis_loop_poll
  \/ \E level \in ThreatLevels \cup {None} : analysis_loop_analyzed(level)
  \/ analysis_loop_add_analysis
  \/ analysis_loop_latest
  \/ handle_security_threat
  \/ analysis_loop_clear


(***************************************************************************)
(* Strings by size, and the broadcast channel at rest (used by Part III).   *)
(*                                                                         *)
(* A str is modelled by its size: len characters that each take width      *)
(* bytes in the output of json.dumps (1 for plain ASCII, 6 for a character *)
(* that ensure_ascii writes as \uXXXX), followed by tail ASCII characters. *)
(* width = 0 stands for None.                                              *)
(***************************************************************************)
Str(n, w) == [len |-> n, width |-> w, tail |-> 0]

Ascii(n) == Str(n, 1)

NoString == Str(0, 0)

IsNone(s) == s.width = 0

\* len(s)
StrLen(s) == s.len + s.tail

\* s[:k]
Take(s, k) ==
  IF k <= s.len THEN [len |-> k, width |-> s.width, tail |-> 0]
  ELSE IF k < s.len + s.tail THEN [s EXCEPT !.tail = k - s.len]
  ELSE s

\* s + "..."
Ellipsis(s) == [s EXCEPT !.tail = @ + 3]

\* l[:k] of a list
Head_k(l, k) == IF Len(l) <= k THEN l ELSE SubSeq(l, 1, k)

\* if len(message) > 1400
udp_limit == 1400

\* return keywords[:5]
keyword_limit == 5

\* ports = [9999, 9998, 10000, 8888]
ports == << 9999, 9998, 10000, 8888 >>

\* no datagram built yet
NoMessage == [len |-> 0, keys |-> {}, compact |-> FALSE]

\* the notification service with no broadcast under examination
BroadcastOff ==
  /\ analysis_text = [kind |-> "empty", text |-> Ascii(0)]
  /\ keywords = <<>>
  /\ confidence = 3
  /\ video_path = NoString
  /\ server_ip = Ascii(9)
  /\ bpc = "off"
  /\ payload = << >>
  /\ message = NoMessage
  /\ ports_tried = 0
  /\ broadcast_success_count = 0
  /\ datagrams = {}
  /\ broadcast_success = FALSE


\* the evaluator method has not returned
NoEvaluation == [value |-> None, path |-> "pending"]

\* analyze_video has not returned
NoAnalysis == [outcome |-> "pending", analysis_text |-> None,
               threat_level |-> None, confidence |-> 0, keywords |-> << >>]

\* no call of the stream handler yet
NoCall == [op |-> "none", read |-> "none", count |-> 0, since |-> 0,
           reconnect |-> FALSE, attempts |-> 0, result |-> FALSE]

\* the services as constructed; the one named busy has a call under
\* examination and is described by that call's initial condition
ServicesOff(busy) ==
  /\ IF busy = "analyze_video" THEN TRUE
     ELSE /\ backend = "ollama"
          /\ frames = 0
          /\ frame_data = 0
          /\ ppc = "off"
          /\ futures = << >>
          /\ completed = << >>
          /\ batch_results = << >>
          /\ batch_summaries = << >>
          /\ consolidated_analysis = None
          /\ security_analysis = NoAnalysis
  /\ IF busy = "evaluator" THEN TRUE
     ELSE /\ method = "evaluate_threat_level"
          /\ text = {}
          /\ epc = "off"
          /\ attempt = 0
          /\ requests = << >>
          /\ evaluation = NoEvaluation
  /\ IF busy = "process_frame" THEN TRUE
     ELSE /\ last_detection_time = << >>
          /\ clock = 0
          /\ admissions = << >>
  /\ IF busy = "record_clip" THEN TRUE
     ELSE /\ _active_recording = FALSE
          /\ rpc = << >>
          /\ observed_active = << >>
          /\ returned_clip = << >>
  /\ IF busy = "get_frame" THEN TRUE
     ELSE /\ is_connected = FALSE
          /\ cap = "none"
          /\ failed_frame_count = 0
          /\ last_successful_read = 0
          /\ stream_time = 0
          /\ source_readable = TRUE
          /\ frame = "unset"
          /\ stream_log = NoCall

\* the notification service as MobileNotificationService() builds it, with
\* no send_security_alert call under examination
AlertOff ==
  /\ threat_level = "low"
  /\ min_threat_level = "medium"
  /\ enable_push_notifications = TRUE
  /\ webhook_urls = 0
  /\ notification_url = FALSE
  /\ npc = "off"
  /\ notify = FALSE
  /\ success = FALSE
  /\ success_count = 0
  /\ attempts = <<>>
  /\ alert_result = FALSE

Init == MonInit /\ AlertOff /\ BroadcastOff /\ ServicesOff("none")

Next == MainThread \/ MonitoringThread \/ AnalysisThread

Spec == Init /\ [][Next]_vars

\* both loops keep running: each thread is scheduled again and again, and
\* every blocking call (recording, analysis, notification, sleep) returns
FairSpec == Spec /\ WF_vars(MonitoringThread) /\ WF_vars(AnalysisThread)

(***************************************************************************)
(* Claims about the monitor                                                *)
(***************************************************************************)

\* record_security_clip is executing
RecordingInFlight == mpc = "m_record"

\* the analysis loop holds a popped clip and has not finished with it
AnalysisInFlight ==
  apc \in {"a_analyze", "a_add", "a_add_app", "a_latest", "a_alert", "a_clear"}

\* C1: a recording starts only when _recording_in_progress and
\* _analysis_in_progress are both false, and no recording runs while the
\* analysis loop is processing a clip (nor while a clip waits in the queue).
C1_NeverRecordingAndAnalysing ==
  /\ mpc = "m_start" => ~_recording_in_progress /\ ~_analysis_in_progress
  /\ RecordingInFlight =>
       /\ _recording_in_progress
       /\ ~_analysis_in_progress
       /\ ~AnalysisInFlight
       /\ pending_analyses = <<>>

\* a second recording is running after the first clip went through analysis
C1_Witness == RecordingInFlight /\ clip_log[1].popped /\ clips_recorded = 1

\* C2 (as claimed): once the analysis loop has popped a clip and is done with
\* the attempt, _analysis_in_progress is clear; in particular the loop never
\* ends with the popped clip in hand and the flag still set.
C2_FlagClearedAfterAttempt ==
  (apc = "a_ended" /\ a_video_clip # 0) => ~_analysis_in_progress

\* C3: with both loops scheduled fairly and the stop flag not set, every clip
\* appended to pending_analyses is eventually popped by the analysis loop.
C3_QueuedClipEventuallyPopped ==
  \A c \in 1..MaxClips :
    (\E i \in 1..Len(pending_analyses) : pending_analyses[i] = c)
      ~> (clip_log[c].popped \/ _stop_event)

\* the second clip was queued and popped while the monitor was not stopped
C3_Witness == clip_log[MaxClips].popped /\ ~_stop_event

\* C4: the analyses of a session are in the order in which their clips were
\* recorded and queued (clips are numbered in that order).
C4_AnalysesInRecordingOrder ==
  \A k \in 1..Len(sessions) :
    \A i, j \in 1..Len(sessions[k].analyses) :
      i < j => sessions[k].analyses[i].clip < sessions[k].analyses[j].clip

\* a session holds the analyses of two clips
C4_Witness == \E k \in 1..Len(sessions) : Len(sessions[k].analyses) >= 2

\* the analysis loop is done with clip c
AttemptOver(c) ==
  clip_log[c].popped /\ (a_video_clip # c \/ apc = "a_ended")

\* C5 (as claimed): for every clip the analysis loop popped and is done with,
\* send_security_alert was called exactly once if the analysis of the clip
\* has is_threat_detected, and not at all otherwise.
C5_AlertOnceForEveryThreat ==
  \A c \in 1..MaxClips :
    AttemptOver(c) =>
      clip_log[c].alerts = IF is_threat_detected(clip_log[c].result) THEN 1 ELSE 0

\* the handler is past its early returns and has no clip yet
HandlerBeforeClip ==
  mpc \in {"m_add_det", "m_add_det_app", "m_start", "m_record"}

\* C20: when record_security_clip returns None the capture is aborted: the
\* handler returns with _recording_in_progress and _analysis_in_progress
\* both false, and from the point where it passed its early returns to its
\* return neither pending_analyses nor any session's clip list changes; so
\* the next admitted detection past the minimum interval starts a capture.
C20_AbortedCaptureResets ==
  [][ /\ (mpc = "m_record" /\ mpc' = "m_loop") =>
           /\ ~_recording_in_progress'
           /\ ~_analysis_in_progress'
           /\ clips_recorded' = clips_recorded
      /\ (HandlerBeforeClip /\ mpc' # "m_add_clip") =>
           /\ pending_analyses' = pending_analyses
           /\ \A k \in 1..Len(sessions) :
                sessions'[k].video_clips = sessions[k].video_clips
    ]_vars

\* a capture is running after an earlier one was aborted: no clip was ever
\* recorded, and the session holds the detections of more than one frame
C20_Witness ==
  /\ RecordingInFlight
  /\ clips_recorded = 0
  /\ pending_analyses = <<>>
  /\ \E k \in 1..Len(sessions) :
       /\ sessions[k].detections > MaxDetections
       /\ sessions[k].video_clips = <<>>

\* number of times x occurs in the list l
Occurrences(l, x) == Cardinality({ i \in 1..Len(l) : l[i] = x })

\* the handler has returned from the capture that produced clip c
CaptureHandled(c) == c <= clips_recorded /\ m_video_clip # c

\* C21: every successful capture appends its clip exactly once to the
\* session's clip list and exactly once to pending_analyses (from which the
\* analysis loop may since have popped it), and the handler holds the clip
\* with _recording_in_progress false.
C21_ClipAddedOnceAndQueuedOnce ==
  /\ \A c \in 1..MaxClips :
       CaptureHandled(c) =>
         /\ \E k \in 1..Len(sessions) :
              /\ Occurrences(sessions[k].video_clips, c) = 1
              /\ \A j \in 1..Len(sessions) \ {k} :
                   Occurrences(sessions[j].video_clips, c) = 0
         /\ Occurrences(pending_analyses, c)
              + (IF clip_log[c].popped THEN 1 ELSE 0) = 1
  /\ m_video_clip # 0 => ~_recording_in_progress

\* C26: once the stop flag is set, the monitoring loop and the analysis
\* loop both end, given that both threads keep being scheduled and every
\* blocking call returns; a loop that finds the flag set at its iteration
\* boundary starts no further iteration, and an ended loop stays ended.
C26_LoopsEndAfterStop ==
  /\ _stop_event ~> (mpc = "m_ended" /\ apc = "a_ended")
  /\ [][ /\ (mpc = "m_loop" /\ _stop_event /\ mpc' # mpc) => mpc' = "m_ended"
         /\ (apc = "a_loop" /\ _stop_event /\ apc' # apc) => apc' = "a_ended"
         /\ mpc = "m_ended" => mpc' = "m_ended"
         /\ apc = "a_ended" => apc' = "a_ended" ]_vars

\* both loops have ended after stop_monitoring set the flag while a
\* recording was running
C26_Witness ==
  /\ _stop_event
  /\ mpc = "m_ended" /\ apc = "a_ended"
  /\ clips_recorded >= 1
  /\ spc # "s_run"

\* C27: the pending queue never holds more than one clip.
C27_AtMostOnePending == Len(pending_analyses) <= 1

\* a clip waits in the queue after an earlier one was analysed
C27_Witness == Len(pending_analyses) = 1 /\ clip_log[1].popped

\* C35: a non-empty pending queue implies _analysis_in_progress, in every
\* reachable state; so no call of _handle_person_detections gets past its
\* early returns, towards a capture, while a clip is waiting in the queue.
C35_QueuedClipImpliesFlag ==
  /\ [](pending_analyses # << >> => _analysis_in_progress)
  /\ [][ (mpc = "m_frame" /\ mpc' = "m_add_det")
           => pending_analyses = << >> ]_vars

\* a frame with detections arrives while a clip waits in the queue
C35_Witness ==
  /\ pending_analyses # << >>
  /\ _analysis_in_progress
  /\ mpc = "m_frame"

\* the clips of the analyses of a session
AnalysedClips(sess) == [k \in 1..Len(sess.analyses) |-> sess.analyses[k].clip]

\* C36: no event is duplicated: a queued clip is popped at most once and
\* gets at most one AnalysisResult, which goes to the session that has the
\* clip; so a session never has more AnalysisResults than Clips.
C36_NoMoreAnalysesThanClips ==
  /\ [](\A i \in 1..Len(sessions) :
          /\ Len(sessions[i].analyses) <= Len(sessions[i].video_clips)
          /\ \A c \in 1..MaxClips :
               /\ Occurrences(AnalysedClips(sessions[i]), c) <= 1
               /\ Occurrences(AnalysedClips(sessions[i]), c)
                    <= Occurrences(sessions[i].video_clips, c))
  /\ [][ (pending_analyses # << >> /\ apc = "a_poll" /\ apc' = "a_analyze")
           => ~clip_log[Head(pending_analyses)].popped ]_vars

\* every clip of a session has got its analysis, for at least two clips
C36_Witness ==
  /\ current_session # 0
  /\ Len(sessions[current_session].video_clips) >= 2
  /\ Len(sessions[current_session].analyses)
       = Len(sessions[current_session].video_clips)

\* C37: a session marked COMPLETED is never changed afterwards, whatever
\* add_detection_to_session, add_clip_to_session and add_analysis_to_session
\* calls of the worker loops interleave with end_monitoring_session.
C37_CompletedSessionNeverMutated ==
  [][ \A i \in 1..Len(sessions) :
        sessions[i].status = "completed" => sessions'[i] = sessions[i] ]_vars

\* C39: when start_monitoring has returned False, no worker loop is running
\* and no session is left IN_PROGRESS.
C39_FailedStartLeavesNothingOpen ==
  spc = "s_failed" =>
    /\ mpc = "m_off" /\ apc = "a_off"
    /\ \A i \in 1..Len(sessions) : sessions[i].status # "in_progress"

\* C32: every detection process_frame returned is appended to the current
\* session, also while a recording or an analysis is in progress: a call of
\* _handle_person_detections (the only step that reads the clock into
\* current_time) goes on to the loop that appends its detections.
C32_AdmittedDetectionsAppended ==
  [][ (mpc = "m_frame" /\ current_time' # current_time)
        => (mpc' = "m_add_det" /\ detections' > 0) ]_vars

(***************************************************************************)
(* Part II: MobileNotificationService.send_security_alert                  *)
(***************************************************************************)

\* webhook URLs configured (NOTIFICATION_WEBHOOK_URLS)
MaxWebhooks == 2

\* the threat_levels dictionary of should_notify
threat_levels(level) ==
  CASE level = "low" -> 1
    [] level = "medium" -> 2
    [] level = "high" -> 3
    [] level = "critical" -> 4

\* should_notify that compares with > instead of >=
should_notify_Above(level) ==
  /\ enable_push_notifications
  /\ is_threat_detected(level)
  /\ threat_levels(level) > threat_levels(min_threat_level)

\* should_notify without the is_threat_detected test
should_notify_LevelOnly(level) ==
  /\ enable_push_notifications
  /\ threat_levels(level) >= threat_levels(min_threat_level)

\* should_notify(analysis)
should_notify(level) ==
  /\ enable_push_notifications
  /\ is_threat_detected(level)
  /\ threat_levels(level) >= threat_levels(min_threat_level)

\* a call of send_security_alert(analysis, video_path) on a service with some
\* configuration
AlertInit ==
  /\ threat_level \in ThreatLevels
  /\ min_threat_level \in ThreatLevels
  /\ enable_push_notifications \in BOOLEAN
  /\ webhook_urls \in 0..MaxWebhooks
  /\ notification_url \in BOOLEAN
  /\ npc = "gate"
  /\ notify = FALSE
  /\ success = FALSE
  /\ success_count = 0
  /\ attempts = <<>>
  /\ alert_result = FALSE

\* if not self.should_notify(analysis): return False
send_security_alert_gate ==
  /\ npc = "gate"
  /\ notify' = should_notify(threat_level)
  /\ IF should_notify(threat_level)
       THEN /\ npc' = "broadcast"
            /\ UNCHANGED alert_result
       ELSE /\ npc' = "done"
            /\ alert_result' = FALSE
  /\ UNCHANGED << threat_level, min_threat_level, enable_push_notifications,
                  webhook_urls, notification_url, success, success_count,
                  attempts, monVars, bcVars, svcVars >>

\* if self.webhook_urls and not success, without the test of success
TryWebhooks_Always(ok) == webhook_urls > 0

\* if self.webhook_urls and not success
TryWebhooks(ok) == webhook_urls > 0 /\ ~ok

\* if self.notification_url and not success
TryHttp(ok) == notification_url /\ ~ok

\* broadcast_success = await self._send_broadcast_notification(notification)
\* success = broadcast_success; the channel catches its own exceptions
send_broadcast_notification(ok) ==
  /\ npc = "broadcast"
  /\ attempts' = Append(attempts, [channel |-> "broadcast", ok |-> ok])
  /\ success' = ok
  /\ success_count' = 0
  /\ npc' = IF TryWebhooks(ok) THEN "webhooks"
            ELSE IF TryHttp(ok) THEN "http" ELSE "return"
  /\ UNCHANGED << threat_level, min_threat_level, enable_push_notifications,
                  webhook_urls, notification_url, notify, alert_result,
                  monVars, bcVars, svcVars >>

\* return success_count == len(self.webhook_urls)
webhooks_succeeded_All(count) == count = webhook_urls

\* return success_count > 0
webhooks_succeeded(count) == count > 0

\* number of webhook POSTs made so far in this call
webhooks_posted ==
  Cardinality({i \in 1..Len(attempts) : attempts[i].channel = "webhook"})

\* _send_webhook_notifications: one POST per URL, each caught on its own;
\* after the last one, success = success or webhook_success
send_webhook_notifications(ok) ==
  /\ npc = "webhooks"
  /\ attempts' = Append(attempts, [channel |-> "webhook", ok |-> ok])
  /\ success_count' = success_count + (IF ok THEN 1 ELSE 0)
  /\ IF webhooks_posted + 1 < webhook_urls
       THEN /\ npc' = "webhooks"
            /\ UNCHANGED success
       ELSE /\ success' = (success \/ webhooks_succeeded(success_count'))
            /\ npc' = IF TryHttp(success') THEN "http" ELSE "return"
  /\ UNCHANGED << threat_level, min_threat_level, enable_push_notifications,
                  webhook_urls, notification_url, notify, alert_result,
                  monVars, bcVars, svcVars >>

\* success = await self._send_http_notification(notification)
send_http_notification(ok) ==
  /\ npc = "http"
  /\ attempts' = Append(attempts, [channel |-> "http", ok |-> ok])
  /\ success' = ok
  /\ npc' = "return"
  /\ UNCHANGED << threat_level, min_threat_level, enable_push_notifications,
                  webhook_urls, notification_url, notify, success_count,
                  alert_result, monVars, bcVars, svcVars >>

\* return success
send_security_alert_return ==
  /\ npc = "return"
  /\ alert_result' = success
  /\ npc' = "done"
  /\ UNCHANGED << threat_level, min_threat_level, enable_push_notifications,
                  webhook_urls, notification_url, notify, success,
                  success_count, attempts, monVars, bcVars, svcVars >>

AlertNext ==
  \/ send_security_alert_gate
  \/ \E ok \in BOOLEAN : send_broadcast_notification(ok)
  \/ \E ok \in BOOLEAN : send_webhook_notifications(ok)
  \/ \E ok \in BOOLEAN : send_http_notification(ok)
  \/ send_security_alert_return

\* the monitor as constructed, with one send_security_alert call under way
AlertStart == MonInit /\ AlertInit /\ BroadcastOff /\ ServicesOff("none")

AlertSpec == AlertStart /\ [][AlertNext]_vars

(***************************************************************************)
(* Claims about send_security_alert                                        *)
(***************************************************************************)

\* the gate as specified: a threat at or above the configured minimum
GateSatisfied ==
  /\ threat_level \in {"medium", "high", "critical"}
  /\ threat_levels(threat_level) >= threat_levels(min_threat_level)

\* priority of a channel
ChannelRank(channel) ==
  CASE channel = "broadcast" -> 1 [] channel = "webhook" -> 2 [] channel = "http" -> 3

\* C6: the broadcast is attempted first and once; an attempt on another
\* channel than an earlier attempt's is on a later channel in the order
\* broadcast, webhooks, HTTP, and is made only if the earlier attempt failed.
C6_ChannelsInOrderUntilSuccess ==
  /\ \A i \in 1..Len(attempts) : (attempts[i].channel = "broadcast") <=> (i = 1)
  /\ \A i, j \in 1..Len(attempts) :
       i < j =>
         /\ ChannelRank(attempts[i].channel) <= ChannelRank(attempts[j].channel)
         /\ attempts[i].channel # attempts[j].channel => ~attempts[i].ok

\* broadcast failed, a webhook succeeded, and the call returned without the
\* HTTP POST although the endpoint is configured
C6_Witness ==
  /\ npc = "done"
  /\ notification_url
  /\ Len(attempts) >= 2
  /\ ~attempts[1].ok
  /\ \E i \in 1..Len(attempts) : attempts[i].channel = "webhook" /\ attempts[i].ok
  /\ \A i \in 1..Len(attempts) : attempts[i].channel # "http"

\* C7: when the gate is not satisfied, and so for every LOW analysis,
\* send_security_alert attempts no channel and returns false.
C7_NoOpWhenGateFails ==
  (~GateSatisfied \/ threat_level = "low") =>
     /\ attempts = <<>>
     /\ npc = "done" => alert_result = FALSE

\* a LOW analysis with minimum level LOW went through the call
C7_Witness ==
  npc = "done" /\ threat_level = "low" /\ min_threat_level = "low"
     /\ enable_push_notifications

\* C8 (as claimed): should_notify is true iff is_threat_detected and the
\* level's ordinal is at least the minimum level's ordinal.
C8_ShouldNotifyIffGate ==
  npc \notin {"off", "gate"} => (notify <=> GateSatisfied)

\* C8 (amended): should_notify is true iff push notifications are enabled,
\* is_threat_detected, and the level's ordinal is at least the minimum's.
C8_ShouldNotifyIffEnabledAndGate ==
  npc \notin {"off", "gate"} => (notify <=> (enable_push_notifications /\ GateSatisfied))

\* should_notify returned true for HIGH with minimum MEDIUM
C8_Witness ==
  npc = "broadcast" /\ notify /\ threat_level = "high" /\ min_threat_level = "medium"

\* C9: send_security_alert returns true iff some attempted channel reported
\* success; a failed channel does not stop the dispatch: when it returns
\* false after the gate, every configured channel was attempted and failed.
C9_ResultIsOrOfChannels ==
  npc = "done" =>
    /\ alert_result <=> (\E i \in 1..Len(attempts) : attempts[i].ok)
    /\ (notify /\ ~alert_result) =>
         /\ \E i \in 1..Len(attempts) : attempts[i].channel = "broadcast"
         /\ webhooks_posted = webhook_urls
         /\ notification_url =>
              \E i \in 1..Len(attempts) : attempts[i].channel = "http"

\* the broadcast and the first webhook failed, the second webhook succeeded,
\* and the call returned true
C9_Witness ==
  /\ npc = "done"
  /\ alert_result = TRUE
  /\ Len(attempts) = 3
  /\ ~attempts[1].ok /\ ~attempts[2].ok /\ attempts[3].ok

(***************************************************************************)
(* Part III: the broadcast payload and _send_broadcast_notification        *)
(***************************************************************************)
\* analysis.analysis_text, without markup: nothing, the phrase of a routine
\* report, a first sentence of more than 20 characters, or text whose
\* sentences are all shorter than that
AnalysisTexts ==
  { [kind |-> "empty", text |-> Ascii(0)],
    [kind |-> "routine", text |-> Ascii(60)],
    [kind |-> "sentence", text |-> Ascii(60)],
    [kind |-> "sentence", text |-> Str(250, 6)],
    [kind |-> "fragments", text |-> Ascii(150)] }

\* one keyword as the model's answer, split at the commas, gives it: a
\* word, or prose with no comma in it
Keywords == { Ascii(8), Ascii(700) }

\* repr of analysis.confidence: 0.8, 0.8500000000000001
Confidences == { 3, 18 }

\* ./recordings/security_clip_<timestamp>.mp4, or no video_path
VideoPaths == { NoString, Ascii(50) }

\* Path(video_path).name
PathName(p) == Ascii(StrLen(p) - 13)

\* Path(video_path).stem
PathStem(p) == Ascii(StrLen(p) - 17)

\* _extract_summary
extract_summary(t) ==
  IF t.kind = "empty" THEN Ascii(23)
  ELSE IF t.kind = "routine" THEN Ascii(39)
  ELSE IF StrLen(t.text) > 100 THEN Ellipsis(Take(t.text, 100))
  ELSE t.text

\* _extract_camera_name: a path of the recorder names no camera
extract_camera_name(p) == Ascii(15)

\* analysis.threat_level.value.upper()
threat_level_value(level) ==
  Ascii(CASE level = "low" -> 3 [] level = "medium" -> 6
          [] level = "high" -> 4 [] level = "critical" -> 8)

\* the dict that _create_broadcast_notification_payload returns
broadcast_notification_payload ==
  LET video_filename == IF IsNone(video_path) THEN NoString
                        ELSE PathName(video_path)
      video_id == IF IsNone(video_path) THEN NoString
                  ELSE PathStem(video_path)
  IN [ type |-> Ascii(14),
       id |-> IF IsNone(video_id) THEN Ascii(21) ELSE video_id,
       timestamp |-> Ascii(27),
       threatLevel |-> threat_level_value(threat_level),
       confidence |-> confidence,
       summary |-> extract_summary(analysis_text),
       camera |-> extract_camera_name(video_path),
       keywords |-> Head_k(keywords, 3),
       video_id |-> video_id,
       video_filename |-> video_filename,
       is_threat_detected |-> is_threat_detected(threat_level),
       api_endpoint |-> IF IsNone(video_id) THEN NoString
                        ELSE Ascii(33 + StrLen(server_ip) + StrLen(video_id)),
       server_info |-> [ip |-> server_ip, port |-> 4] ]

\* the compact_payload of _send_broadcast_notification
compact_payload(p) ==
  [ type |-> p.type,
    id |-> p.id,
    timestamp |-> p.timestamp,
    threatLevel |-> p.threatLevel,
    confidence |-> p.confidence,
    summary |-> Take(p.summary, 100),
    camera |-> p.camera,
    keywords |-> Head_k(p.keywords, 2),
    server_info |-> p.server_info ]

\* number of characters of each key of the payload
key_len ==
  [ type |-> 4, id |-> 2, timestamp |-> 9, threatLevel |-> 11,
    confidence |-> 10, summary |-> 7, camera |-> 6, keywords |-> 8,
    video_id |-> 8, video_filename |-> 14, is_threat_detected |-> 18,
    api_endpoint |-> 12, server_info |-> 11, ip |-> 2, port |-> 4 ]

\* bytes of json.dumps(s) for a str or None
dumps_str(s) == IF IsNone(s) THEN 4 ELSE s.len * s.width + s.tail + 2

RECURSIVE dumps_items(_)
\* bytes of the items of a list of str, with the commas between them
dumps_items(l) ==
  IF l = <<>> THEN 0
  ELSE dumps_str(Head(l)) + (IF Len(l) > 1 THEN 1 ELSE 0)
       + dumps_items(Tail(l))

\* bytes of the value stored under key k
dumps_value(k, v) ==
  CASE k = "confidence" -> v
    [] k = "port" -> v
    [] k = "keywords" -> 2 + dumps_items(v)
    [] k = "is_threat_detected" -> IF v THEN 4 ELSE 5
    [] k = "server_info" ->
         2 + (key_len["ip"] + 3 + dumps_str(v.ip)) + 1
           + (key_len["port"] + 3 + v.port)
    [] OTHER -> dumps_str(v)

RECURSIVE dumps_members(_, _)
\* bytes of the members "key":value of p under the keys K, with the commas
dumps_members(p, K) ==
  IF K = {} THEN 0
  ELSE LET k == CHOOSE x \in K : TRUE
       IN key_len[k] + 3 + dumps_value(k, p[k])
          + (IF K = {k} THEN 0 ELSE 1) + dumps_members(p, K \ {k})

\* len(json.dumps(p, separators=(',', ':')).encode('utf-8'))
dumps(p) == 2 + dumps_members(p, DOMAIN p)

\* send_security_alert(analysis, video_path) past its gate, for an analysis
\* that is a threat, on a host whose address is localhost or a dotted quad
BroadcastInit ==
  /\ threat_level \in { l \in ThreatLevels : is_threat_detected(l) }
  /\ min_threat_level = "medium"
  /\ enable_push_notifications = TRUE
  /\ webhook_urls = 0
  /\ notification_url = FALSE
  /\ npc = "broadcast"
  /\ notify = TRUE
  /\ success = FALSE
  /\ success_count = 0
  /\ attempts = <<>>
  /\ alert_result = FALSE
  /\ analysis_text \in AnalysisTexts
  /\ \E n \in 0..MaxKeywords : keywords \in [1..n -> Keywords]
  /\ confidence \in Confidences
  /\ video_path \in VideoPaths
  /\ server_ip \in { Ascii(9), Ascii(13) }
  /\ bpc = "create"
  /\ payload = << >>
  /\ message = NoMessage
  /\ ports_tried = 0
  /\ broadcast_success_count = 0
  /\ datagrams = {}
  /\ broadcast_success = FALSE

\* notification = self._create_broadcast_notification_payload(analysis, video_path)
create_broadcast_notification_payload ==
  /\ bpc = "create"
  /\ payload' = broadcast_notification_payload
  /\ bpc' = "dumps"
  /\ UNCHANGED << analysis_text, keywords, confidence, video_path, server_ip,
                  message, ports_tried, broadcast_success_count, datagrams,
                  broadcast_success, monVars, alertVars,
                  svcVars >>

\* message = json.dumps(payload ...); the compact version when it is too large
broadcast_message(p) ==
  IF dumps(p) > udp_limit
    THEN [len |-> dumps(compact_payload(p)),
          keys |-> DOMAIN compact_payload(p), compact |-> TRUE]
    ELSE [len |-> dumps(p), keys |-> DOMAIN p, compact |-> FALSE]

\* _send_broadcast_notification up to the loop over the ports
send_broadcast_dumps ==
  /\ bpc = "dumps"
  /\ message' = broadcast_message(payload)
  /\ broadcast_success_count' = 0
  /\ ports_tried' = 0
  /\ bpc' = "port"
  /\ UNCHANGED << analysis_text, keywords, confidence, video_path, server_ip,
                  payload, datagrams, broadcast_success, monVars, alertVars,
                  svcVars >>

\* one turn of `for port in ports`: the socket is set up or raises; with a
\* socket, sendto is tried for every broadcast address and delivered of them
\* succeed; success_count += 1 follows the inner loop whatever it did
send_broadcast_port(sock_ok, delivered) ==
  /\ bpc = "port"
  /\ ports_tried < Len(ports)
  /\ ports_tried' = ports_tried + 1
  /\ IF sock_ok
       THEN /\ broadcast_success_count' = broadcast_success_count + 1
            /\ datagrams' = IF delivered > 0 THEN datagrams \cup {message}
                            ELSE datagrams
       ELSE UNCHANGED << broadcast_success_count, datagrams >>
  /\ bpc' = IF ports_tried' = Len(ports) THEN "return" ELSE "port"
  /\ UNCHANGED << analysis_text, keywords, confidence, video_path, server_ip,
                  payload, message, broadcast_success, monVars, alertVars,
                  svcVars >>

\* return success_count > 0
send_broadcast_return ==
  /\ bpc = "return"
  /\ broadcast_success' = (broadcast_success_count > 0)
  /\ bpc' = "done"
  /\ UNCHANGED << analysis_text, keywords, confidence, video_path, server_ip,
                  payload, message, ports_tried, broadcast_success_count,
                  datagrams, monVars, alertVars,
                  svcVars >>

BroadcastNext ==
  \/ create_broadcast_notification_payload
  \/ send_broadcast_dumps
  \/ \E sock_ok \in BOOLEAN, delivered \in 0..MaxAddresses :
       send_broadcast_port(sock_ok, delivered)
  \/ send_broadcast_return

\* the monitor as constructed, with one broadcast under way
BroadcastStart == MonInit /\ BroadcastInit /\ ServicesOff("none")

BroadcastSpec == BroadcastStart /\ [][BroadcastNext]_vars

(***************************************************************************)
(* Claims about the broadcast message                                      *)
(***************************************************************************)

\* C10: every datagram the broadcast channel sends is at most 1400 bytes
\* long; when the full payload serializes to more than that, the datagram is
\* the compact variant, which fits the cap and still carries id, timestamp
\* and threatLevel.
C10_BroadcastMessageWithinCap ==
  \A d \in datagrams :
    /\ d.len <= udp_limit
    /\ dumps(payload) > udp_limit =>
         /\ d.compact
         /\ {"id", "timestamp", "threatLevel"} \subseteq d.keys

\* C31: the broadcast channel reports success only if at least one datagram
\* was sent to some address on some port; when every send fails it returns
\* false.
C31_BroadcastSuccessMeansDatagramSent ==
  (bpc = "done" /\ broadcast_success) => datagrams # {}

(***************************************************************************)
(* Part IV: analyze_video                                                  *)
(*                                                                         *)
(* OllamaSecurityAnalyzer sends batches of 4 frames through a pool of two  *)
(* workers and collects the replies as they complete;                      *)
(* GemmaTransformerSecurityAnalyzer runs batches of 1 frame one after the  *)
(* other.  confidence is in hundredths.                                    *)
(***************************************************************************)
Backends == {"ollama", "transformer"}

\* batch_size of the backend
batch_size(b) == IF b = "ollama" THEN 4 ELSE 1

\* num_frames that analyze_video passes to extract_frames
num_frames(b) == IF b = "ollama" THEN 30 ELSE 5

\* len(frame_batches) for n converted frames
num_batches(b, n) == (n + batch_size(b) - 1) \div batch_size(b)

\* _create_failed_analysis
create_failed_analysis(b, error_message) ==
  [outcome |-> "returned", analysis_text |-> error_message,
   threat_level |-> "low", confidence |-> 0,
   keywords |-> IF b = "transformer" THEN << "analysis_failed" >> ELSE << >>]

\* _calculate_confidence for a text of len characters and n keywords
calculate_confidence(b, len, n) ==
  LET min(x, y) == IF x < y THEN x ELSE y
  IN IF b = "ollama"
       THEN min(70 + min(len \div 2, 20) + min(20 * n, 10), 100)
       ELSE min(50 + (IF len > 100 THEN 20 ELSE 0)
                   + (IF len > 200 THEN 10 ELSE 0)
                   + (IF n > 0 THEN 10 ELSE 0)
                   + (IF n > 3 THEN 10 ELSE 0), 100)

\* one call analyze_video(video_clip) on either backend
PipelineInit ==
  /\ MonInit /\ AlertOff /\ BroadcastOff /\ ServicesOff("analyze_video")
  /\ backend \in Backends
  /\ frames = 0
  /\ frame_data = 0
  /\ ppc = "extract"
  /\ futures = << >>
  /\ completed = << >>
  /\ batch_results = << >>
  /\ batch_summaries = << >>
  /\ consolidated_analysis = None
  /\ security_analysis = NoAnalysis

\* everything analyze_video leaves alone
notPipeVars == << monVars, alertVars, bcVars, evalVars, gateVars, recVars,
                 streamVars >>

\* frames = self.extract_frames(...); if not frames: return the failed
\* analysis
extract_frames(n) ==
  /\ ppc = "extract"
  /\ n <= num_frames(backend)
  /\ frames' = n
  /\ IF n = 0
       THEN /\ security_analysis' =
                 create_failed_analysis(backend, "Failed to extract frames")
            /\ ppc' = "done"
       ELSE /\ ppc' = "convert"
            /\ UNCHANGED security_analysis
  /\ UNCHANGED << backend, frame_data, futures, completed, batch_results,
                  batch_summaries, consolidated_analysis, notPipeVars >>

\* the exception leaves analyze_video
analyze_video_except_Propagate ==
  /\ ppc = "extract"
  /\ security_analysis' = [NoAnalysis EXCEPT !.outcome = "raised"]
  /\ ppc' = "done"
  /\ UNCHANGED << backend, frames, frame_data, futures, completed,
                  batch_results, batch_summaries, consolidated_analysis,
                  notPipeVars >>

\* except Exception as e: return self._create_failed_analysis(...), for an
\* exception raised before the frames are extracted (video_clip.file_path)
analyze_video_except ==
  /\ ppc = "extract"
  /\ security_analysis' = create_failed_analysis(backend, "Analysis error")
  /\ ppc' = "done"
  /\ UNCHANGED << backend, frames, frame_data, futures, completed,
                  batch_results, batch_summaries, consolidated_analysis,
                  notPipeVars >>

\* _frames_to_base64 / _frames_to_pil: m of the frames are converted, the
\* others are skipped; the batches are formed and, on ollama, all submitted
frames_to_batches(m) ==
  /\ ppc = "convert"
  /\ m <= frames
  /\ frame_data' = m
  /\ futures' = [i \in 1..num_batches(backend, m) |-> "queued"]
  /\ batch_results' = [i \in 1..num_batches(backend, m) |-> "unset"]
  /\ ppc' = "batches"
  /\ UNCHANGED << backend, frames, completed, batch_summaries,
                  consolidated_analysis, security_analysis, notPipeVars >>

\* ThreadPoolExecutor(max_workers=2)
max_workers == 2

\* a worker of the pool takes the oldest submitted batch and posts it
analyze_frame_batch_start(i) ==
  /\ ppc = "batches"
  /\ backend = "ollama"
  /\ i \in DOMAIN futures
  /\ futures[i] = "queued"
  /\ \A j \in 1..(i - 1) : futures[j] # "queued"
  /\ Cardinality({j \in DOMAIN futures : futures[j] = "running"}) < max_workers
  /\ futures' = [futures EXCEPT ![i] = "running"]
  /\ UNCHANGED << backend, frames, frame_data, ppc, completed, batch_results,
                  batch_summaries, consolidated_analysis, security_analysis,
                  notPipeVars >>

\* _analyze_frame_batch returns: the batch result, or None for a timeout, a
\* connection error, a status other than 200 or an empty reply
analyze_frame_batch_return(i, ok) ==
  /\ ppc = "batches"
  /\ backend = "ollama"
  /\ i \in DOMAIN futures
  /\ futures[i] = "running"
  /\ futures' = [futures EXCEPT ![i] = IF ok THEN "ok" ELSE "none"]
  /\ completed' = Append(completed, i)
  /\ UNCHANGED << backend, frames, frame_data, ppc, batch_results,
                  batch_summaries, consolidated_analysis, security_analysis,
                  notPipeVars >>

\* one turn of `for future in as_completed(future_to_batch)`: the result, or
\* the "No analysis received" placeholder, is stored under the batch's index
collect_batch_result ==
  LET done == Cardinality({j \in DOMAIN batch_results :
                              batch_results[j] # "unset"})
  IN /\ ppc = "batches"
     /\ backend = "ollama"
     /\ done < Len(completed)
     /\ LET batch_idx == completed[done + 1]
        IN batch_results' =
             [batch_results EXCEPT ![batch_idx] =
                IF futures[batch_idx] = "ok" THEN "summary" ELSE "placeholder"]
     /\ UNCHANGED << backend, frames, frame_data, ppc, futures, completed,
                     batch_summaries, consolidated_analysis,
                     security_analysis, notPipeVars >>

\* the summaries in the order in which the requests completed
collect_batch_summaries_AsCompleted(results, order) ==
  [k \in 1..Len(order) |-> [batch |-> order[k], kind |-> results[order[k]]]]

\* for batch_idx, batch_result in enumerate(batch_results):
\*     batch_summaries.append(batch_result["batch_summary"])
collect_batch_summaries(results, order) ==
  [k \in 1..Len(results) |-> [batch |-> k, kind |-> results[k]]]

\* after the pool is done: batch_summaries is built; None is returned when it
\* is empty, and analyze_video then returns the failed analysis
analyze_frames_individually ==
  /\ ppc = "batches"
  /\ backend = "ollama"
  /\ \A j \in DOMAIN batch_results : batch_results[j] # "unset"
  /\ batch_summaries' = collect_batch_summaries(batch_results, completed)
  /\ IF batch_summaries' = << >>
       THEN /\ security_analysis' =
                 create_failed_analysis(backend, "Failed to get analysis")
            /\ ppc' = "done"
       ELSE /\ ppc' = "consolidate"
            /\ UNCHANGED security_analysis
  /\ UNCHANGED << backend, frames, frame_data, futures, completed,
                  batch_results, consolidated_analysis, notPipeVars >>

\* _analyze_frames_with_transformer: the batches one after the other; a
\* batch whose prediction fails is left out; past the last batch, None is
\* returned when no batch succeeded
analyze_frames_with_transformer(ok) ==
  LET batch_idx == Cardinality({j \in DOMAIN futures :
                                   futures[j] # "queued"}) + 1
      last == batch_idx >= Len(futures)
      summaries == IF ok /\ batch_idx <= Len(futures)
                     THEN Append(batch_summaries,
                                 [batch |-> batch_idx, kind |-> "summary"])
                     ELSE batch_summaries
  IN /\ ppc = "batches"
     /\ backend = "transformer"
     /\ batch_idx <= Len(futures) \/ (Len(futures) = 0 /\ ~ok)
     /\ futures' = IF batch_idx <= Len(futures)
                     THEN [futures EXCEPT ![batch_idx] =
                             IF ok THEN "ok" ELSE "none"]
                     ELSE futures
     /\ batch_summaries' = summaries
     /\ IF ~last THEN ppc' = "batches" /\ UNCHANGED security_analysis
        ELSE IF summaries = << >>
          THEN /\ security_analysis' =
                 create_failed_analysis(backend, "Failed to get analysis")
               /\ ppc' = "done"
          ELSE /\ ppc' = "consolidate"
               /\ UNCHANGED security_analysis
     /\ UNCHANGED << backend, frames, frame_data, completed, batch_results,
                     consolidated_analysis, notPipeVars >>

\* the consolidation step returns nothing when its request failed
consolidation_fallback_Lost(b) == None

\* what the consolidation step returns when its request failed
consolidation_fallback(b) ==
  IF b = "ollama" THEN "concatenation" ELSE "first_batch"

\* _consolidate_analyses / _consolidate_batch_analyses: the model's reply,
\* or the fallback when the request raises or yields nothing; analyze_video
\* returns the failed analysis `if not analysis_text`
consolidate_analyses(reply) ==
  /\ ppc = "consolidate"
  /\ consolidated_analysis' = IF reply = "ok" THEN "consolidated"
                              ELSE consolidation_fallback(backend)
  /\ IF consolidated_analysis' = None
       THEN /\ security_analysis' =
                 create_failed_analysis(backend, "Failed to get analysis")
            /\ ppc' = "done"
       ELSE /\ ppc' = "evaluate"
            /\ UNCHANGED security_analysis
  /\ UNCHANGED << backend, frames, frame_data, futures, completed,
                  batch_results, batch_summaries, notPipeVars >>

\* extract_keywords that returns every keyword it found
extract_keywords_Unlimited(b, found, path) ==
  IF b = "transformer" /\ path = "fallback" THEN 2 ELSE found

\* number of keywords extract_keywords returns when `found` keywords came
\* out of the model's reply (path "reply") or, the reply lacking, out of the
\* fallback: SecurityThreatEvaluator cuts both lists with [:5];
\* TransformerThreatEvaluator cuts the reply with [:5] and otherwise returns
\* ["surveillance", "monitoring"]
extract_keywords(b, found, path) ==
  IF b = "transformer" /\ path = "fallback" THEN 2
  ELSE IF found < keyword_limit THEN found ELSE keyword_limit

\* evaluate_threat_level and extract_keywords on the text (both return
\* whatever happens to their requests), _calculate_confidence, and the
\* SecurityAnalysis that is returned
analyze_video_return(level, found, path, len) ==
  /\ ppc = "evaluate"
  /\ security_analysis' =
       [outcome |-> "returned", analysis_text |-> consolidated_analysis,
        threat_level |-> level,
        confidence |-> calculate_confidence(backend, len,
                         extract_keywords(backend, found, path)),
        keywords |-> [k \in 1..extract_keywords(backend, found, path)
                        |-> "keyword"]]
  /\ ppc' = "done"
  /\ UNCHANGED << backend, frames, frame_data, futures, completed,
                  batch_results, batch_summaries, consolidated_analysis,
                  notPipeVars >>

PipelineNext ==
  \/ \E n \in 0..MaxFrames : extract_frames(n)
  \/ analyze_video_except
  \/ \E m \in 0..MaxFrames : frames_to_batches(m)
  \/ \E i \in 1..MaxFrames : analyze_frame_batch_start(i)
  \/ \E i \in 1..MaxFrames, ok \in BOOLEAN : analyze_frame_batch_return(i, ok)
  \/ collect_batch_result
  \/ analyze_frames_individually
  \/ \E ok \in BOOLEAN : analyze_frames_with_transformer(ok)
  \/ \E reply \in {"ok", "no reply", "error"} : consolidate_analyses(reply)
  \/ \E level \in ThreatLevels, found \in 0..(keyword_limit + 1),
        path \in {"reply", "fallback"}, len \in {50, 150, 250} :
       analyze_video_return(level, found, path, len)

PipelineSpec == PipelineInit /\ [][PipelineNext]_vars

(***************************************************************************)
(* Claims about analyze_video                                              *)
(***************************************************************************)

\* a failed analysis: one of the texts of _create_failed_analysis
FailedTexts == {"Failed to extract frames", "Failed to get analysis",
                "Analysis error"}

\* C11: whatever fails (frame extraction, batch requests, consolidation,
\* classification, keyword extraction), analyze_video returns a result: it
\* neither raises nor returns None, and a failed result is LOW with
\* confidence 0 while every other result has a level and a confidence.
C11_AnalyzeVideoAlwaysReturnsResult ==
  ppc = "done" =>
    /\ security_analysis.outcome = "returned"
    /\ security_analysis.threat_level \in ThreatLevels
    /\ IF security_analysis.analysis_text \in FailedTexts
         THEN /\ security_analysis.threat_level = "low"
              /\ security_analysis.confidence = 0
         ELSE security_analysis.confidence > 0

\* analyze_video has returned although a batch request and the
\* consolidation request both failed
C11_Witness ==
  /\ ppc = "done"
  /\ security_analysis.outcome = "returned"
  /\ \E i \in DOMAIN futures : futures[i] = "none"
  /\ consolidated_analysis \in {"first_batch", "concatenation"}

\* C12: with either backend, a clip that yields zero frames gives a result
\* with level LOW, confidence 0 and the single keyword analysis_failed.
C12_ZeroFramesGiveFailedAnalysis ==
  (ppc = "done" /\ security_analysis.analysis_text = "Failed to extract frames")
    => /\ security_analysis.outcome = "returned"
       /\ security_analysis.threat_level = "low"
       /\ security_analysis.confidence = 0
       /\ security_analysis.keywords = << "analysis_failed" >>

\* C30: every result analyze_video returns, whether its keywords come from
\* the backend's reply, from the fallback extraction or from the failed
\* analysis, carries at most 5 keywords.
C30_AtMostFiveKeywords ==
  ppc = "done" => Len(security_analysis.keywords) <= 5

\* a returned analysis carries five keywords
C30_Witness ==
  /\ ppc = "done"
  /\ security_analysis.analysis_text \notin FailedTexts
  /\ Len(security_analysis.keywords) = 5

\* C40: with either backend, when there were batch requests and none of
\* them yielded a summary, analyze_video returns the failed analysis (LOW,
\* confidence 0) and not a result built from placeholder text.
C40_NoSummaryGivesFailedAnalysis ==
  (/\ ppc = "done"
   /\ futures # << >>
   /\ \A j \in DOMAIN futures : futures[j] = "none")
    => /\ security_analysis.analysis_text \in FailedTexts
       /\ security_analysis.threat_level = "low"
       /\ security_analysis.confidence = 0

\* C16: the batch summaries handed to consolidation are in ascending batch
\* order, whatever the order in which the batch requests completed.
C16_SummariesInBatchOrder ==
  \A i, j \in 1..Len(batch_summaries) :
    i < j => batch_summaries[i].batch < batch_summaries[j].batch

\* a later batch completed before an earlier one, and the summaries of both
\* have been handed to consolidation
C16_Witness ==
  /\ ppc = "consolidate"
  /\ backend = "ollama"
  /\ Len(batch_summaries) >= 2
  /\ \E k \in 1..(Len(completed) - 1) : completed[k] > completed[k + 1]

\* C17: when the consolidation request fails although batch summaries exist,
\* the text is the first batch's summary or a concatenation of the
\* summaries, and analyze_video returns a non-failed result built from it.
C17_ConsolidationFailureKeepsAnalysis ==
  /\ (ppc = "evaluate" /\ consolidated_analysis # "consolidated") =>
       /\ consolidated_analysis \in {"first_batch", "concatenation"}
       /\ batch_summaries # << >>
  /\ (ppc = "done" /\ batch_summaries # << >>) =>
       /\ security_analysis.outcome = "returned"
       /\ security_analysis.analysis_text = consolidated_analysis
       /\ security_analysis.analysis_text \notin FailedTexts
       /\ security_analysis.confidence > 0

\* analyze_video has returned a result built from the fallback text
C17_Witness ==
  /\ ppc = "done"
  /\ consolidated_analysis \in {"first_batch", "concatenation"}
  /\ security_analysis.analysis_text = consolidated_analysis

(***************************************************************************)
(* Part V: SecurityThreatEvaluator                                         *)
(*                                                                         *)
(* An analysis text is modelled by the phrases that occur in it; a keyword *)
(* is `in` the text when it is a substring of one of them.                 *)
(***************************************************************************)
\* phrases an analysis text may be made of
Phrases == { "no security concerns detected", "no suspicious activity",
             "not suspicious", "suspicious", "unauthorized", "Weapon",
             "unusual", "person walking" }

\* str.lower() of a phrase
lower(p) == IF p = "Weapon" THEN "weapon" ELSE p

\* substrings of a phrase among the words the classifier looks for
substrings(p) ==
  CASE p = "no suspicious activity" ->
         {"no suspicious activity", "no suspicious", "suspicious"}
    [] p = "not suspicious" -> {"not suspicious", "suspicious"}
    [] OTHER -> {p}

\* the keywords are looked for in the text as written
any_in_CaseSensitive(keywords_, t) ==
  \E p \in t : substrings(p) \cap keywords_ # {}

\* any(keyword in text_lower for keyword in keywords), text_lower = t.lower()
any_in(keywords_, t) ==
  \E p \in t : substrings(lower(p)) \cap keywords_ # {}

\* _fallback_keyword_evaluation without the test of the negative context
fallback_keyword_evaluation_NoNegation(t) ==
  IF any_in({"no security concerns detected", "normal scene",
             "no people or suspicious activity visible",
             "no suspicious activity", "all frames show normal",
             "normal activity", "no threats detected", "appears normal"}, t)
    THEN "low"
  ELSE IF any_in({"weapon", "violence", "attack", "break-in",
                  "forced entry"}, t)
    THEN "critical"
  ELSE IF any_in({"suspicious", "unauthorized", "trespassing"}, t)
    THEN "high"
  ELSE IF any_in({"unusual", "loitering", "investigation"}, t)
    THEN "medium"
  ELSE "low"

\* _fallback_keyword_evaluation
fallback_keyword_evaluation(t) ==
  IF any_in({"no security concerns detected", "normal scene",
             "no people or suspicious activity visible",
             "no suspicious activity", "all frames show normal",
             "normal activity", "no threats detected", "appears normal"}, t)
    THEN "low"
  ELSE IF any_in({"weapon", "violence", "attack", "break-in",
                  "forced entry"}, t)
    THEN "critical"
  ELSE IF /\ any_in({"suspicious", "unauthorized", "trespassing"}, t)
          /\ ~any_in({"no suspicious", "not suspicious", "no unauthorized"}, t)
    THEN "high"
  ELSE IF any_in({"unusual", "loitering", "investigation"}, t)
    THEN "medium"
  ELSE "low"

\* level names as a reply may spell them; a reply is the set of those it
\* contains
ReplyWords == {"low", "Medium", "HIGH", "critical"}

\* str.upper() of a level name
upper(w) ==
  CASE w = "low" -> "LOW"
    [] w = "Medium" -> "MEDIUM"
    [] w = "critical" -> "CRITICAL"
    [] OTHER -> w

\* the level names are looked for in the reply as written
map_threat_response_CaseSensitive(reply) ==
  IF "CRITICAL" \in reply THEN "critical"
  ELSE IF "HIGH" \in reply THEN "high"
  ELSE IF "MEDIUM" \in reply THEN "medium"
  ELSE "low"

\* threat_response = result.get('response', '').strip().upper() and the
\* if / elif chain that maps it to the enum
map_threat_response(reply) ==
  LET threat_response == { upper(w) : w \in reply }
  IN IF "CRITICAL" \in threat_response THEN "critical"
     ELSE IF "HIGH" \in threat_response THEN "high"
     ELSE IF "MEDIUM" \in threat_response THEN "medium"
     ELSE "low"

\* max_retries = 3
max_retries == 3

\* timeout = 60 + (attempt * 30)
request_timeout(k) == 60 + (k * 30)

\* another attempt follows only a timeout
retry_after_TimeoutOnly(outcome, k) ==
  outcome = "timeout" /\ k < max_retries - 1

\* the loop goes on to another attempt: after a timeout, a status other
\* than 200 or any other exception, unless this was the last attempt
retry_after(outcome, k) == outcome # "ok" /\ k < max_retries - 1

\* one call evaluate_threat_level(text) or extract_keywords(text)
EvaluatorInit ==
  /\ MonInit /\ AlertOff /\ BroadcastOff /\ ServicesOff("evaluator")
  /\ method \in {"evaluate_threat_level", "extract_keywords"}
  /\ text \in SUBSET Phrases
  /\ epc = "post"
  /\ attempt = 0
  /\ requests = << >>
  /\ evaluation = NoEvaluation

\* one turn of `for attempt in range(max_retries)`: the POST and what
\* follows it.  A 200 reply returns the parsed answer.  Otherwise the loop
\* goes on, or ends: on the last attempt a timeout or a bad status breaks
\* out of the loop (evaluate_threat_level then returns LOW, extract_keywords
\* the fallback extraction) and any other exception is re-raised to the
\* outer handler, which returns the fallback.
post_generate(outcome, reply, n) ==
  /\ epc = "post"
  /\ requests' = Append(requests, [timeout |-> request_timeout(attempt),
                                   outcome |-> outcome, reply |-> reply])
  /\ IF outcome = "ok"
       THEN /\ evaluation' =
                 [value |-> IF method = "evaluate_threat_level"
                              THEN map_threat_response(reply)
                              ELSE IF n < keyword_limit THEN n
                                   ELSE keyword_limit,
                  path |-> "reply"]
            /\ epc' = "done"
            /\ UNCHANGED attempt
     ELSE IF retry_after(outcome, attempt)
       THEN /\ attempt' = attempt + 1
            /\ UNCHANGED << epc, evaluation >>
     ELSE /\ evaluation' =
               IF method = "evaluate_threat_level"
                 THEN IF outcome = "error"
                        THEN [value |-> fallback_keyword_evaluation(text),
                              path |-> "fallback"]
                        ELSE [value |-> "low", path |-> "default"]
                 ELSE [value |-> IF n < keyword_limit THEN n
                                 ELSE keyword_limit,
                       path |-> "fallback"]
          /\ epc' = "done"
          /\ UNCHANGED attempt
  /\ UNCHANGED << method, text, monVars, alertVars, bcVars, pipeVars,
                  gateVars, recVars, streamVars >>

\* the reply matters to evaluate_threat_level, the number of keywords found
\* to extract_keywords
EvaluatorNext ==
  \E outcome \in {"ok", "status", "timeout", "error"} :
    \E reply \in IF outcome = "ok" /\ method = "evaluate_threat_level"
                   THEN SUBSET ReplyWords
                   ELSE {{}},
       n \in IF method = "extract_keywords" THEN 0..(keyword_limit + 1)
             ELSE {0} :
         post_generate(outcome, reply, n)

EvaluatorSpec == EvaluatorInit /\ [][EvaluatorNext]_vars

(***************************************************************************)
(* Claims about the evaluator                                              *)
(***************************************************************************)

\* C13: when every classification attempt has failed (timeout, error or bad
\* status), evaluate_threat_level returns the level the fallback keyword
\* classifier computes on the text.
C13_AllAttemptsFailedGivesFallbackLevel ==
  ( /\ epc = "done"
    /\ method = "evaluate_threat_level"
    /\ \A k \in 1..Len(requests) : requests[k].outcome # "ok" )
  => evaluation.value = fallback_keyword_evaluation(text)

\* C14: at most 3 attempts with timeouts 60, 90 and 120 seconds; another
\* attempt is made only after a timeout.
C14_RetryOnlyAfterTimeout ==
  /\ Len(requests) <= 3
  /\ \A k \in 1..Len(requests) : requests[k].timeout = 60 + 30 * (k - 1)
  /\ \A k \in 1..(Len(requests) - 1) : requests[k].outcome = "timeout"

\* C14, as the code has it: at most 3 attempts with timeouts 60, 90 and 120
\* seconds; another attempt follows every failed one (timeout, bad status or
\* any other error) and only a successful reply ends the attempts before the
\* third.
C14_RetryAfterAnyFailure ==
  /\ Len(requests) <= 3
  /\ \A k \in 1..Len(requests) : requests[k].timeout = 60 + 30 * (k - 1)
  /\ \A k \in 1..(Len(requests) - 1) : requests[k].outcome # "ok"
  /\ (epc = "done" /\ Len(requests) < 3) =>
       requests[Len(requests)].outcome = "ok"

\* a third attempt was made after an error that was not a timeout
C14_Witness ==
  /\ epc = "done"
  /\ Len(requests) = 3
  /\ requests[1].outcome = "error"
  /\ requests[2].outcome = "status"

\* the text contains "weapon", in whatever case
HasWeapon == "Weapon" \in text

\* the fallback classifier has run on the text
FallbackRan ==
  /\ epc = "done"
  /\ method = "evaluate_threat_level"
  /\ evaluation.path = "fallback"

\* C15: the fallback classifier gives CRITICAL for every text containing
\* "weapon", and LOW for a text containing only "no security concerns
\* detected".
C15_WeaponIsCritical ==
  FallbackRan =>
    /\ HasWeapon => evaluation.value = "critical"
    /\ text = {"no security concerns detected"} => evaluation.value = "low"

\* C15, as the code has it: CRITICAL for every text that contains "weapon"
\* and none of the explicit no-concern phrases, which are tested first; LOW
\* for a text containing only "no security concerns detected".
C15_WeaponIsCriticalUnlessNoConcern ==
  FallbackRan =>
    /\ ( /\ HasWeapon
         /\ ~any_in({"no security concerns detected",
                     "no suspicious activity"}, text) )
       => evaluation.value = "critical"
    /\ text = {"no security concerns detected"} => evaluation.value = "low"

\* the fallback classifier has returned CRITICAL for a text with "weapon"
C15_Witness ==
  /\ FallbackRan
  /\ HasWeapon
  /\ evaluation.value = "critical"

\* vocabulary of the text, read off the phrases it is made of
SaysNoConcern ==
  text \cap {"no security concerns detected", "no suspicious activity"} # {}

HasHighTerm ==
  text \cap {"suspicious", "unauthorized", "not suspicious",
             "no suspicious activity"} # {}

HasNegation == text \cap {"not suspicious", "no suspicious activity"} # {}

HasMediumTerm == "unusual" \in text

\* C33: the fallback classifier is this priority list, a function of the
\* text alone: a no-concern phrase gives LOW; else a weapon/violence term
\* gives CRITICAL; else a suspicious/unauthorized term with no negation
\* phrase anywhere in the text gives HIGH; else an unusual/loitering term
\* gives MEDIUM; else LOW.
C33_FallbackIsPriorityList ==
  FallbackRan =>
    evaluation.value =
      IF SaysNoConcern THEN "low"
      ELSE IF HasWeapon THEN "critical"
      ELSE IF HasHighTerm /\ ~HasNegation THEN "high"
      ELSE IF HasMediumTerm THEN "medium"
      ELSE "low"

\* the classifier passed over a high term because of a negation elsewhere
\* in the text and answered MEDIUM
C33_Witness ==
  /\ FallbackRan
  /\ text = {"unauthorized", "not suspicious", "unusual"}
  /\ evaluation.value = "medium"

\* evaluate_threat_level returned what it read in a 200 reply
ReplyMapped ==
  /\ epc = "done"
  /\ method = "evaluate_threat_level"
  /\ evaluation.path = "reply"

\* the levels a reply names, in whatever case
NamedLevels(reply) ==
  { l \in ThreatLevels :
      [low |-> "low", medium |-> "Medium", high |-> "HIGH",
       critical |-> "critical"][l] \in reply }

\* C34: the level of a successful reply is selected by case-insensitive
\* presence of the level name, and a reply naming no level or more than
\* one level gives LOW.
C34_AmbiguousReplyIsLow ==
  ReplyMapped =>
    LET named == NamedLevels(requests[Len(requests)].reply)
    IN evaluation.value =
         IF Cardinality(named) = 1 THEN CHOOSE l \in named : TRUE
         ELSE "low"

\* C34, as the code has it: the level is the most severe one the reply
\* names, in whatever case; LOW when it names none.
C34_MostSevereNamedLevel ==
  ReplyMapped =>
    LET named == NamedLevels(requests[Len(requests)].reply)
    IN evaluation.value =
         IF named = {} THEN "low"
         ELSE CHOOSE l \in named :
                \A o \in named : threat_levels(o) <= threat_levels(l)

\* a reply naming two levels in mixed case was mapped
C34_Witness ==
  /\ ReplyMapped
  /\ requests[Len(requests)].reply = {"Medium", "critical"}
  /\ evaluation.value = "critical"

(***************************************************************************)
(* Part VI: PersonDetectionUseCase.process_frame and its cooldown          *)
(*                                                                         *)
(* last_detection_time is << >> for None and << t >> for a time; clock is  *)
(* datetime.now() in seconds.                                              *)
(***************************************************************************)
\* detection_cooldown = timedelta(seconds=5)
detection_cooldown == 5

\* the cooldown is not applied
should_process_detection_Always(t) == TRUE

\* _should_process_detection, called at time t
should_process_detection(t) ==
  \/ last_detection_time = << >>
  \/ t - last_detection_time[1] >= detection_cooldown

\* MobileNetPersonDetector(confidence_threshold=0.5), in hundredths
confidence_threshold == 50

\* what detect_persons may find: a good detection, and one that fails each
\* test of is_detection_valid by the least margin (confidence in hundredths)
Detections ==
  { [confidence |-> 50, width |-> 50, height |-> 60],
    [confidence |-> 49, width |-> 50, height |-> 60],
    [confidence |-> 50, width |-> 29, height |-> 60],
    [confidence |-> 50, width |-> 51, height |-> 61] }

\* the lists detect_persons may return
DetectionLists ==
  UNION { [1..n -> Detections] : n \in 0..MaxDetections }

\* is_detection_valid without the aspect ratio test
is_detection_valid_NoAspect(detection) ==
  /\ ~(detection.confidence < confidence_threshold)
  /\ ~(detection.width < 30 \/ detection.height < 60)

\* is_detection_valid; height / width < 1.2 is 5 * height < 6 * width
is_detection_valid(detection) ==
  /\ ~(detection.confidence < confidence_threshold)
  /\ ~(detection.width < 30 \/ detection.height < 60)
  /\ ~(5 * detection.height < 6 * detection.width)

\* [detection for detection in detections if is_detection_valid(detection)]
valid_detections(detected) == SelectSeq(detected, is_detection_valid)

\* PersonDetectionUseCase as constructed
GateInit ==
  /\ MonInit /\ AlertOff /\ BroadcastOff /\ ServicesOff("process_frame")
  /\ last_detection_time = << >>
  /\ clock = 0
  /\ admissions = << >>

\* one call process_frame(frame), dt seconds after the previous one
\* returned: detect_persons returns the list `detected`, of which the valid
\* ones are kept; saving them takes d seconds; raises says that the detector
\* or the repository raised, in which case the call returns [].  A call that
\* returns its detections is logged in admissions.
process_frame(dt, detected, d, raises) ==
  /\ clock + dt + d <= MaxTime
  /\ clock' = clock + dt + d
  /\ IF /\ ~raises
        /\ valid_detections(detected) # << >>
        /\ should_process_detection(clock + dt)
       THEN /\ last_detection_time' = << clock + dt + d >>
            /\ admissions' = Append(admissions,
                                    [called |-> clock + dt,
                                     now |-> clock + dt + d,
                                     detected |-> Len(detected),
                                     returned |-> valid_detections(detected)])
       ELSE UNCHANGED << last_detection_time, admissions >>
  /\ UNCHANGED << monVars, alertVars, bcVars, pipeVars, evalVars, recVars,
                  streamVars >>

GateNext ==
  \E dt \in 0..MaxDt, raises \in BOOLEAN :
    \E detected \in IF raises THEN {<< >>} ELSE DetectionLists :
      \E d \in IF valid_detections(detected) = << >> THEN {0} ELSE 0..1 :
        process_frame(dt, detected, d, raises)

GateSpec == GateInit /\ [][GateNext]_vars

\* C18: any two calls of process_frame that return a non-empty list are at
\* least the cooldown (5 s) apart, and every admission sets
\* last_detection_time.
C18_AdmissionsCooldownApart ==
  /\ \A i, j \in 1..Len(admissions) :
       i < j => admissions[j].called - admissions[i].now
                  >= detection_cooldown
  /\ admissions # << >> =>
       last_detection_time = << admissions[Len(admissions)].now >>

\* C29: a detection whose confidence is below the threshold is not valid;
\* a detection is valid only if its confidence is at least the threshold,
\* its box is at least 30 wide and 60 high and its height is at least 1.2
\* times its width; and process_frame returns no detection that is not
\* valid.
C29_OnlyValidDetectionsReturned ==
  /\ \A detection \in Detections \cup
                       {[confidence |-> 50, width |-> 30, height |-> 59]} :
       /\ detection.confidence < 50 => ~is_detection_valid(detection)
       /\ is_detection_valid(detection) =>
            /\ detection.confidence >= 50
            /\ detection.width >= 30 /\ detection.height >= 60
            /\ 10 * detection.height >= 12 * detection.width
  /\ \A i \in 1..Len(admissions) :
       \A j \in 1..Len(admissions[i].returned) :
         LET detection == admissions[i].returned[j] IN
           /\ detection.confidence >= 50
           /\ detection.width >= 30 /\ detection.height >= 60
           /\ 10 * detection.height >= 12 * detection.width

\* a call returned fewer detections than the detector found
C29_Witness ==
  \E i \in 1..Len(admissions) :
    /\ admissions[i].detected = 2
    /\ Len(admissions[i].returned) = 1

\* three calls were admitted, the second and third each exactly when the
\* cooldown had run out
C18_Witness ==
  /\ Len(admissions) = 3
  /\ admissions[2].called - admissions[1].now = detection_cooldown

(***************************************************************************)
(* Part VII: FFmpegVideoRecorder.record_clip, called by several threads    *)
(*                                                                         *)
(* The recorder has no lock: the test of _active_recording and the         *)
(* assignment that sets it are separate steps of a call.                   *)
(***************************************************************************)
\* number of threads that call the recorder
MaxCallers == 2

Callers == 1..MaxCallers

\* a recording is in progress: some call other than c has passed the test
\* of the flag and its ffmpeg has not finished
recording_in_progress(c) ==
  \E a \in Callers \ {c} : rpc[a].at \in {"set", "run"}

\* FFmpegVideoRecorder as constructed, no call made yet
RecorderInit ==
  /\ MonInit /\ AlertOff /\ BroadcastOff /\ ServicesOff("record_clip")
  /\ _active_recording = FALSE
  /\ rpc = [c \in Callers |-> [entry |-> None, at |-> "idle"]]
  /\ observed_active = [c \in Callers |->
                          [tested |-> FALSE, flag |-> FALSE, during |-> FALSE]]
  /\ returned_clip = [c \in Callers |-> "pending"]

notRecVars == << monVars, alertVars, bcVars, pipeVars, evalVars, gateVars,
                streamVars >>

\* thread c calls record_clip, or record_security_clip which calls it
call_recorder(c, entry) ==
  /\ rpc[c].at = "idle"
  /\ rpc' = [rpc EXCEPT ![c] =
               [entry |-> entry,
                at |-> IF entry = "record_security_clip"
                         THEN "is_recording_active" ELSE "test"]]
  /\ UNCHANGED << _active_recording, observed_active, returned_clip,
                  notRecVars >>

\* record_security_clip: if self.recording_service.is_recording_active():
\* return None
is_recording_active(c) ==
  /\ rpc[c].at = "is_recording_active"
  /\ observed_active' = [observed_active EXCEPT ![c] =
                           [tested |-> TRUE, flag |-> _active_recording,
                            during |-> recording_in_progress(c)]]
  /\ IF _active_recording
       THEN /\ rpc' = [rpc EXCEPT ![c].at = "done"]
            /\ returned_clip' = [returned_clip EXCEPT ![c] = "none"]
       ELSE /\ rpc' = [rpc EXCEPT ![c].at = "test"]
            /\ UNCHANGED returned_clip
  /\ UNCHANGED << _active_recording, notRecVars >>

\* record_clip: if self._active_recording: return None   (before the try)
record_clip_test(c) ==
  /\ rpc[c].at = "test"
  /\ observed_active' = [observed_active EXCEPT ![c] =
                           [tested |-> TRUE, flag |-> _active_recording,
                            during |-> recording_in_progress(c)]]
  /\ IF _active_recording
       THEN /\ rpc' = [rpc EXCEPT ![c].at = "done"]
            /\ returned_clip' = [returned_clip EXCEPT ![c] = "none"]
       ELSE /\ rpc' = [rpc EXCEPT ![c].at = "set"]
            /\ UNCHANGED returned_clip
  /\ UNCHANGED << _active_recording, notRecVars >>

\* try: self._active_recording = True
record_clip_set(c) ==
  /\ rpc[c].at = "set"
  /\ _active_recording' = TRUE
  /\ rpc' = [rpc EXCEPT ![c].at = "run"]
  /\ UNCHANGED << observed_active, returned_clip, notRecVars >>

\* subprocess.run(command, ...) returns: ok says ffmpeg exited with 0 and
\* the file exists; otherwise it failed, timed out or raised
subprocess_run(c, ok) ==
  /\ rpc[c].at = "run"
  /\ returned_clip' = [returned_clip EXCEPT ![c] =
                         IF ok THEN "recorded" ELSE "failed"]
  /\ rpc' = [rpc EXCEPT ![c].at = "finally"]
  /\ UNCHANGED << _active_recording, observed_active, notRecVars >>

\* finally: self._active_recording = False, and the call returns; in
\* record_security_clip the clip is then saved, and None is returned when
\* save_clip raises
record_clip_finally(c, saved) ==
  /\ rpc[c].at = "finally"
  /\ _active_recording' = FALSE
  /\ returned_clip' = [returned_clip EXCEPT ![c] =
                         IF /\ returned_clip[c] = "recorded"
                            /\ (rpc[c].entry = "record_clip" \/ saved)
                           THEN "clip" ELSE "none"]
  /\ rpc' = [rpc EXCEPT ![c].at = "done"]
  /\ UNCHANGED << observed_active, notRecVars >>

RecorderNext ==
  \E c \in Callers :
    \/ \E entry \in {"record_clip", "record_security_clip"} :
         call_recorder(c, entry)
    \/ is_recording_active(c)
    \/ record_clip_test(c)
    \/ record_clip_set(c)
    \/ \E ok \in BOOLEAN : subprocess_run(c, ok)
    \/ \E saved \in BOOLEAN : record_clip_finally(c, saved)

RecorderSpec == RecorderInit /\ [][RecorderNext]_vars

\* C19: a call that tests the flag while another call's recording is in
\* progress returns none, and the active flag is not cleared while a
\* recording is running, under every interleaving of the calls.
C19_SecondCaptureReturnsNone ==
  /\ \A b \in Callers :
       (observed_active[b].during /\ rpc[b].at = "done")
         => returned_clip[b] = "none"
  /\ \A a \in Callers : rpc[a].at = "run" => _active_recording

\* what does hold: a call that reads the flag as set returns none, and it
\* is then not the one that clears the flag
FlagSeenSetReturnsNone ==
  \A b \in Callers :
    (observed_active[b].tested /\ observed_active[b].flag)
      => rpc[b].at = "done" /\ returned_clip[b] = "none"

(***************************************************************************)
(* Part VIII: RTSPStreamHandler                                            *)
(*                                                                         *)
(* The camera is the environment: a connection opens, and a capture that   *)
(* was opened keeps delivering frames, exactly while the camera serves     *)
(* frames; a capture whose camera went away is stale and stays so.  Time   *)
(* is in seconds.                                                          *)
(***************************************************************************)
\* seconds the handler is observed for
MaxStreamTime == 12

\* self.max_failed_frames = 30
max_failed_frames == 30

\* self.reconnect_threshold = 10.0
reconnect_threshold == 10

\* @retry(stop=stop_after_attempt(3), ...)
stop_after_attempt == 3

\* reconnection is decided on the failure count alone
should_reconnect_CountOnly(count, t) == count >= max_failed_frames

\* _should_reconnect, with failed_frame_count = count at time t
should_reconnect(count, t) ==
  \/ count >= max_failed_frames
  \/ t - last_successful_read > reconnect_threshold

\* calls the retry decorator makes of the function it wraps: it calls again
\* only when the call raised, and connect returns False instead of raising
retry_attempts(outcome) ==
  IF outcome = "raised" THEN stop_after_attempt ELSE 1

\* connect() that returns False without calling disconnect: the capture it
\* opened stays in self.cap
connect_KeepsHandle(ok, t) ==
  IF ok
    THEN [is_connected |-> TRUE, cap |-> "live", failed_frame_count |-> 0,
          last_successful_read |-> t]
    ELSE [is_connected |-> FALSE, cap |-> "stale", failed_frame_count |-> 0,
          last_successful_read |-> last_successful_read]

\* the handler after connect() at time t: the capture was opened and the
\* first frame read (ok), or connect called disconnect and returned False
connect(ok, t) ==
  IF ok
    THEN [is_connected |-> TRUE, cap |-> "live", failed_frame_count |-> 0,
          last_successful_read |-> t]
    ELSE [is_connected |-> FALSE, cap |-> "none", failed_frame_count |-> 0,
          last_successful_read |-> last_successful_read]

\* RTSPStreamHandler(rtsp_url), and the camera up or down
StreamInit ==
  /\ MonInit /\ AlertOff /\ BroadcastOff /\ ServicesOff("get_frame")
  /\ is_connected = FALSE
  /\ cap = "none"
  /\ failed_frame_count = 0
  /\ last_successful_read = 0
  /\ stream_time = 0
  /\ source_readable \in BOOLEAN
  /\ frame = "unset"
  /\ stream_log = NoCall

notStreamVars == << monVars, alertVars, bcVars, pipeVars, evalVars, gateVars,
                   recVars >>

\* the camera stops or starts serving frames; an open capture goes stale
\* when it stops
source_changes ==
  /\ source_readable' = ~source_readable
  /\ cap' = IF source_readable /\ cap = "live" THEN "stale" ELSE cap
  /\ UNCHANGED << is_connected, failed_frame_count, last_successful_read,
                  stream_time, frame, stream_log, notStreamVars >>

\* start_monitoring: self.stream_handler.connect(), the first call made
connect_call ==
  /\ stream_log.op = "none"
  /\ LET after == connect(source_readable, stream_time) IN
       /\ is_connected' = after.is_connected
       /\ cap' = after.cap
       /\ failed_frame_count' = after.failed_frame_count
       /\ last_successful_read' = after.last_successful_read
  /\ stream_log' = [op |-> "connect", read |-> "none", count |-> 0,
                    since |-> 0, reconnect |-> FALSE,
                    attempts |-> retry_attempts(IF source_readable
                                                  THEN "true" ELSE "false"),
                    result |-> source_readable]
  /\ UNCHANGED << stream_time, source_readable, frame, notStreamVars >>

\* one call get_frame(), dt seconds after the previous call; raised says
\* that the failing cap.read() raised instead of returning (False, None)
get_frame(dt, raised) ==
  /\ stream_log.op # "none"
  /\ stream_time + dt <= MaxStreamTime
  /\ stream_time' = stream_time + dt
  /\ LET t == stream_time + dt
         read_ok == cap = "live" /\ source_readable
         count == failed_frame_count + 1
         after == connect(source_readable, t)
     IN
       /\ raised => ~read_ok
       /\ IF ~is_connected \/ cap = "none"
            THEN /\ frame' = "none"
                 /\ stream_log' = [op |-> "get_frame", read |-> "skipped",
                                   count |-> failed_frame_count,
                                   since |-> t - last_successful_read,
                                   reconnect |-> FALSE, attempts |-> 0,
                                   result |-> FALSE]
                 /\ UNCHANGED << is_connected, cap, failed_frame_count,
                                 last_successful_read >>
          ELSE IF read_ok
            THEN /\ failed_frame_count' = 0
                 /\ last_successful_read' = t
                 /\ frame' = "frame"
                 /\ stream_log' = [op |-> "get_frame", read |-> "ok",
                                   count |-> 0, since |-> 0,
                                   reconnect |-> FALSE, attempts |-> 0,
                                   result |-> FALSE]
                 /\ UNCHANGED << is_connected, cap >>
          ELSE IF should_reconnect(count, t)
            THEN /\ is_connected' = after.is_connected
                 /\ cap' = after.cap
                 /\ failed_frame_count' = after.failed_frame_count
                 /\ last_successful_read' = after.last_successful_read
                 /\ frame' = IF after.is_connected /\ ~raised
                               THEN "frame" ELSE "none"
                 /\ stream_log' =
                      [op |-> "get_frame",
                       read |-> IF raised THEN "raised" ELSE "failed",
                       count |-> count,
                       since |-> t - last_successful_read,
                       reconnect |-> TRUE,
                       attempts |-> retry_attempts(IF source_readable
                                                     THEN "true" ELSE "false"),
                       result |-> source_readable]
          ELSE /\ failed_frame_count' = count
               /\ frame' = "none"
               /\ stream_log' =
                    [op |-> "get_frame",
                     read |-> IF raised THEN "raised" ELSE "failed",
                     count |-> count,
                     since |-> t - last_successful_read,
                     reconnect |-> FALSE, attempts |-> 0, result |-> FALSE]
               /\ UNCHANGED << is_connected, cap, last_successful_read >>
  /\ UNCHANGED << source_readable, notStreamVars >>

\* _monitoring_loop: frame = self.stream_handler.get_frame()
monitoring_loop_get_frame ==
  \E dt \in 0..MaxDt, raised \in BOOLEAN : get_frame(dt, raised)

StreamNext ==
  \/ source_changes
  \/ connect_call
  \/ monitoring_loop_get_frame

StreamSpec == StreamInit /\ [][StreamNext]_vars

\* the monitoring loop keeps calling get_frame
StreamFairSpec == StreamSpec /\ WF_vars(monitoring_loop_get_frame)

(***************************************************************************)
(* Claims about the stream handler                                         *)
(***************************************************************************)

\* C22: the handler never stalls for good: if it delivered frames once and
\* the camera, after whatever failures, serves frames again from some time
\* on, then the get_frame calls of the monitoring loop return a frame again
\* and again.
C22_NoPermanentStall ==
  (<>(frame = "frame") /\ <>[]source_readable) => []<>(frame = "frame")

\* C23: a connect() whose attempt fails is tried again, 3 attempts in all,
\* before it reports false; it reports true as soon as an attempt succeeds.
C23_ConnectRetriedThreeTimes ==
  stream_log.attempts > 0 =>
    /\ ~stream_log.result => stream_log.attempts = 3
    /\ stream_log.result => stream_log.attempts <= 3

\* C24: in get_frame a failed read increments failed_frame_count, and a
\* reconnect is attempted exactly when, after the increment, the count has
\* reached max_failed_frames (30) or the last successful read is more than
\* reconnect_threshold (10 s) ago; a successful read sets failed_frame_count
\* to 0 and last_successful_read to the time of the read.
C24_ReconnectExactlyWhenDue ==
  /\ stream_log.read \in {"failed", "raised"} =>
       /\ stream_log.count >= 1
       /\ ~stream_log.reconnect => failed_frame_count = stream_log.count
       /\ stream_log.reconnect <=>
            (stream_log.count >= 30 \/ stream_log.since > 10)
  /\ stream_log.read = "ok" =>
       /\ failed_frame_count = 0
       /\ last_successful_read = stream_time

\* a reconnect was made on the 30th failed read in a row, within the
\* threshold
C24_Witness ==
  /\ stream_log.read = "failed"
  /\ stream_log.reconnect
  /\ stream_log.count = 30
  /\ stream_log.since <= 10

\* the last call was a connect, or a get_frame that reconnected, and the
\* connect reported False
ConnectFailed == stream_log.attempts > 0 /\ ~stream_log.result

\* C38: after every return of get_frame or connect (which end in disconnect
\* when they fail), 0 <= failed_frame_count < max_failed_frames, and
\* is_connected implies an open capture; a failed connect leaves
\* is_connected false and the capture released.
C38_HandlerStateConsistent ==
  /\ 0 <= failed_frame_count
  /\ failed_frame_count < 30
  /\ is_connected => cap # "none"
  /\ ConnectFailed => (~is_connected /\ cap = "none")

\* 29 reads in a row have failed and the handler is still connected
C38_Witness ==
  /\ stream_log.op = "get_frame"
  /\ failed_frame_count = 29
  /\ is_connected

(***************************************************************************)
(* Part IX: MonitoringSessionUseCase, started and ended again and again    *)
(*                                                                         *)
(* start_monitoring leaves the session open when the stream cannot be      *)
(* connected, so a later start finds a session still open.  The calls are  *)
(* made by one thread; ending a session is the three steps of Part I.      *)
(***************************************************************************)
\* sessions started
MaxSessions == 3

\* the current session is replaced without being closed
start_monitoring_session_KeepsOpen ==
  /\ spc \in {"s_init", "s_failed", "s_run", "s_done"}
  /\ Len(sessions) < MaxSessions
  /\ sessions' = Append(sessions, NewSession)
  /\ current_session' = Len(sessions) + 1
  /\ spc' = "s_run"
  /\ UNCHANGED << notMonVars, _stop_event, _analysis_in_progress,
                  pending_analyses, mVars, aVars >>

\* start_monitoring_session: a current session with no end_time is ended
\* first (end_time, status, current_session = None), then the new session
\* is created and becomes current
start_monitoring_session ==
  /\ spc \in {"s_init", "s_failed", "s_run", "s_done"}
  /\ Len(sessions) < MaxSessions
  /\ LET ended ==
           IF current_session # 0 /\ ~sessions[current_session].end_time
             THEN [sessions EXCEPT ![current_session].end_time = TRUE,
                                   ![current_session].status = "completed"]
             ELSE sessions
     IN sessions' = Append(ended, NewSession)
  /\ current_session' = Len(sessions) + 1
  /\ spc' = "s_run"
  /\ UNCHANGED << notMonVars, _stop_event, _analysis_in_progress,
                  pending_analyses, mVars, aVars >>

\* add_detection_to_session(detection), called between start and end
session_add_detection ==
  /\ spc = "s_run"
  /\ current_session # 0
  /\ sessions[current_session].detections < MaxDetections
  /\ sessions' = add_detection_to_session(sessions)
  /\ UNCHANGED << notMonVars, _stop_event, _analysis_in_progress,
                  pending_analyses, spc, mVars, aVars, current_session >>

SessionNext ==
  \/ start_monitoring_session
  \/ session_add_detection
  \/ stop_monitoring_set
  \/ stop_monitoring_join
  \/ end_monitoring_session

SessionSpec == Init /\ [][SessionNext]_vars

\* sessions that are IN_PROGRESS
InProgress == { k \in 1..Len(sessions) : sessions[k].status = "in_progress" }

\* C25: at most one session is IN_PROGRESS at any time: starting a session
\* first closes a still-open current session (end_time set, COMPLETED) and
\* then creates a new IN_PROGRESS session with empty lists; ending a session
\* stamps end_time, marks it COMPLETED and leaves no current session.
C25_AtMostOneSessionInProgress ==
  /\ [](Cardinality(InProgress) <= 1)
  /\ [](\A k \in 1..Len(sessions) :
          k # current_session =>
            sessions[k].end_time /\ sessions[k].status = "completed")
  /\ [](spc = "s_done" => current_session = 0)
  /\ [][Len(sessions') > Len(sessions) =>
          /\ current_session' = Len(sessions')
          /\ sessions'[current_session'] = NewSession
          /\ NewSession.status = "in_progress"]_vars

\* a second session is open and the first, which had detections and was
\* never ended by stop_monitoring, is closed
C25_Witness ==
  /\ Len(sessions) = 2
  /\ ~_stop_event
  /\ sessions[1].detections > 0
  /\ sessions[1].end_time /\ sessions[1].status = "completed"
  /\ sessions[2].status = "in_progress"
  /\ current_session = 2

(***************************************************************************)
(* Claims about the entities                                               *)
(***************************************************************************)

\* C28: is_threat_detected is true exactly for the levels above LOW
\* (MEDIUM, HIGH, CRITICAL), and the threat_count of a session is the
\* number of its analyses whose level is above LOW.
C28_ThreatDetectedIffAboveLow ==
  /\ \A level \in ThreatLevels :
       is_threat_detected(level) <=>
         threat_levels(level) > threat_levels("low")
  /\ \A k \in 1..Len(sessions) :
       threat_count(sessions[k].analyses) =
         Cardinality({ i \in 1..Len(sessions[k].analyses) :
                         sessions[k].analyses[i].threat_level # "low" })

\* a session holds a LOW analysis and one that is a threat
C28_Witness ==
  \E k \in 1..Len(sessions) :
    /\ Len(sessions[k].analyses) = 2
    /\ threat_count(sessions[k].analyses) = 1

====
